---- MODULE Spec2Model ----
(***************************************************************************)
(* Model of app.py, the retail sales analysis tool: ingestion of the       *)
(* uploaded tables, the aggregation functions (period statistics, brand    *)
(* share, price segments, top brands / products per segment) and the       *)
(* comparison sheets of the exported workbook.                             *)
(*                                                                         *)
(* Conventions.  Period labels and platform names are free text in the     *)
(* program; here a label is a natural number whose numeric order is the    *)
(* string sort order of the label.  Amounts (零售额, 零售量, 成交均价) are integers  *)
(* counting thousandths, so that round(2) is a real rounding (to a         *)
(* multiple of 10).  A floating point result is a record: a rational in    *)
(* lowest terms, NaN or +inf.  A table is a sequence of rows.              *)
(***************************************************************************)
EXTENDS Integers, Sequences, FiniteSets, TLC

VARIABLES
    pandas,          \* the pandas generation of the build (groupby / pct_change defaults)
    period_labels,   \* main: the period labels in the order the operator configured them
    use_custom_segments, \* main: the checkbox of the custom price boundaries
    custom_ranges_str, \* main: the text of the custom price boundaries, as it parses
    segment_inputs,  \* main: the number inputs of the upper bounds of the automatic segments
    price_ranges,    \* main: the price boundaries handed to the segment functions
    uploaded_files,  \* main: one entry per (platform, period) upload slot
    df,              \* the unified record set (combine_platform_data)
    pc,              \* position of the run of main
    period_stats,    \* calculate_period_stats(df)
    brand_stats,     \* calculate_brand_share(df)
    top_10_brands,   \* main's top-10 selection over brand_stats
    segment_stats,   \* analyze_price_segments(df)
    top_brands,      \* get_top_brands_by_segment(df)
    top_products,    \* get_top_products_by_segment(df)
    sheets,          \* the workbook: sheet name -> table, as written by format_excel_output
    errors,          \* the st.error reports of the run, in order
    segment_dtype    \* the dtype of the '价位段' column of main's segment tables

vars == <<pandas, period_labels, custom_ranges_str, price_ranges, uploaded_files, df, pc,
          period_stats, brand_stats, top_10_brands, segment_stats, top_brands, top_products,
          sheets, errors, segment_dtype, use_custom_segments, segment_inputs>>

-----------------------------------------------------------------------------
(* Bounds of the model *)

\* platforms and periods of the upload grid, brands, and records of one run
NumPlatforms == 2
NumPeriods == 2
NumBrands == 2
MaxRecords == 3

(* Program constants *)

\* the reserved platform label '所有平台'; it sorts after the default names '平台 N'
AllPlatforms == 99
\* main: head(10) of every (period, platform) stratum of the brand table
Top10 == 10
\* n=5, the default of get_top_brands_by_segment / get_top_products_by_segment
TopN == 5
\* a missing cell of an input table (NaN brand), and the NaN category of pd.cut
Missing == 0

-----------------------------------------------------------------------------
(* Floating point values *)

Abs(x) == IF x < 0 THEN -x ELSE x

RECURSIVE GCD(_, _)
GCD(a, b) == IF b = 0 THEN a ELSE GCD(b, a % b)

NaN == [k |-> "nan", n |-> 0, d |-> 1]
Inf == [k |-> "inf", n |-> 1, d |-> 1]

\* the rational n/d (d # 0) in lowest terms
Rat(n, d) ==
    LET g == GCD(Abs(n), Abs(d))
        s == IF d < 0 THEN -1 ELSE 1
    IN  [k |-> "num", n |-> (s * n) \div g, d |-> (s * d) \div g]

Num(i) == Rat(i, 1)
IsNum(x) == x.k = "num"

\* a / b of two non-negative amounts, as numpy divides: x/0 is inf, 0/0 is NaN
FDiv(a, b) ==
    IF b = 0 THEN (IF a = 0 THEN NaN ELSE Inf) ELSE Rat(a, b)

\* (a / b) * 100
SharePct(a, b) ==
    IF b = 0 THEN (IF a = 0 THEN NaN ELSE Inf) ELSE Rat(a * 100, b)

\* x - y on floats (no inf - inf arises: only finite values are subtracted)
FSub(x, y) ==
    IF x.k = "nan" \/ y.k = "nan" THEN NaN
    ELSE IF x.k = "inf" THEN Inf
    ELSE Rat(x.n * y.d - y.n * x.d, x.d * y.d)

\* (cur / prev - 1) * 100 on non-negative floats
PctOf(prev, cur) ==
    IF prev.k = "nan" \/ cur.k = "nan" THEN NaN
    ELSE IF prev.k = "inf" THEN (IF cur.k = "inf" THEN NaN ELSE Num(-100))
    ELSE IF cur.k = "inf" THEN Inf
    ELSE IF prev.n = 0 THEN (IF cur.n = 0 THEN NaN ELSE Inf)
    ELSE Rat((cur.n * prev.d - prev.n * cur.d) * 100, prev.n * cur.d)

\* round(2) of the amount n/d (thousandths): the nearest multiple of 10, ties to even
Round2(n, d) ==
    LET q == n \div (10 * d)
        r == n - q * 10 * d
    IN  IF 2 * r < 10 * d THEN 10 * q
        ELSE IF 2 * r > 10 * d THEN 10 * (q + 1)
        ELSE IF q % 2 = 0 THEN 10 * q ELSE 10 * (q + 1)

-----------------------------------------------------------------------------
(* Sequences and tables *)

Range(s) == {s[i] : i \in 1..Len(s)}

RECURSIVE SumSeq(_)
SumSeq(s) == IF s = <<>> THEN 0 ELSE Head(s) + SumSeq(Tail(s))

RECURSIVE Concat(_)
Concat(ss) == IF ss = <<>> THEN <<>> ELSE Head(ss) \o Concat(Tail(ss))

\* boolean indexing: the rows of t that satisfy P, in the order of t
Filter(t, P(_)) == SelectSeq(t, P)

\* the members of a set of integers in ascending order
RECURSIVE Ascending(_)
Ascending(S) ==
    IF S = {} THEN <<>>
    ELSE LET m == CHOOSE x \in S : \A y \in S : x <= y
         IN  <<m>> \o Ascending(S \ {m})

\* the rows of t at the positions of the set I, in the order of t
Pick(t, I) == LET ix == Ascending(I) IN [j \in 1..Len(ix) |-> t[ix[j]]]

\* Series.unique(): the values of f over t in the order of first appearance
Unique(t, f(_)) ==
    LET first == {i \in 1..Len(t) : \A j \in 1..(i - 1) : f(t[j]) # f(t[i])}
        ix == Ascending(first)
    IN  [j \in 1..Len(ix) |-> f(t[ix[j]])]

\* lexicographic order on key tuples of equal length
RECURSIVE LexLess(_, _)
LexLess(a, b) ==
    IF a = <<>> THEN FALSE
    ELSE IF Head(a) # Head(b) THEN Head(a) < Head(b)
    ELSE LexLess(Tail(a), Tail(b))

\* groupby(sort=True): the keys of a result in ascending order
RECURSIVE SortedKeys(_)
SortedKeys(S) ==
    IF S = {} THEN <<>>
    ELSE LET m == CHOOSE x \in S : \A y \in S \ {x} : LexLess(x, y)
         IN  <<m>> \o SortedKeys(S \ {m})

\* sort_values(by=...): a stable sort, equal rows keep the order of t
SortBy(t, Before(_, _)) ==
    LET pos(i) == 1 + Cardinality({j \in 1..Len(t) :
                        \/ Before(t[j], t[i])
                        \/ (~Before(t[i], t[j]) /\ j < i)})
    IN  [p \in 1..Len(t) |-> t[CHOOSE i \in 1..Len(t) : pos(i) = p]]

\* DataFrame.head(n)
HeadN(t, n) == SubSeq(t, 1, IF Len(t) < n THEN Len(t) ELSE n)


-----------------------------------------------------------------------------
(* Ingestion: load_data, combine_platform_data *)

\* an upload slot the operator left empty (f is None)
NoFile == [uploaded |-> FALSE, readable |-> FALSE, columns_ok |-> FALSE, rows |-> <<>>]

\* load_data without the test of the required columns
load_data_unchecked(file) == IF file.readable THEN [loaded |-> TRUE, rows |-> file.rows]
                             ELSE [loaded |-> FALSE, rows |-> <<>>]

\* load_data: the rows of a file, or None (here: not loaded) when pd.read_excel raises
\* or a required column is missing
load_data(file) == IF file.readable /\ file.columns_ok THEN [loaded |-> TRUE, rows |-> file.rows]
                   ELSE [loaded |-> FALSE, rows |-> <<>>]

\* df['平台'] = platform; df['时间段'] = period
Tag(rows, platform, period) ==
    [i \in 1..Len(rows) |->
        [period |-> period, platform |-> platform, brand |-> rows[i].brand,
         name |-> rows[i].name, link |-> rows[i].link,
         rev |-> rows[i].rev, vol |-> rows[i].vol, price |-> rows[i].price]]

\* main: the slots that hold a file
valid_files(files) == Filter(files, LAMBDA e : e.file.uploaded)

\* one table without rows in place of the empty list when no file loads
all_data_never_empty(files) ==
    LET ok == Filter(files, LAMBDA e : load_data(e.file).loaded)
    IN  IF ok = <<>> THEN << <<>> >>
        ELSE [i \in 1..Len(ok) |->
                 Tag(load_data(ok[i].file).rows, ok[i].platform, ok[i].period)]

\* combine_platform_data: the tagged tables of the files that load, concatenated
all_data(files) ==
    LET ok == Filter(files, LAMBDA e : load_data(e.file).loaded)
    IN  [i \in 1..Len(ok) |-> Tag(load_data(ok[i].file).rows, ok[i].platform, ok[i].period)]

combine_platform_data(files) == Concat(all_data(files))

\* the st.error of load_data for a file that does not load
load_error(file) == IF file.readable THEN "missing_columns" ELSE "load_failed"

\* the reports of combine_platform_data: one per file that does not load, in file
\* order, then the total failure when no file loads
combine_errors(files) ==
    LET bad == Filter(files, LAMBDA e : ~load_data(e.file).loaded)
    IN  [i \in 1..Len(bad) |-> load_error(bad[i].file)]
            \o (IF Len(all_data(files)) = 0 THEN <<"all_failed">> ELSE <<>>)

-----------------------------------------------------------------------------
(* main: the custom price boundaries *)

\* the text of the boundaries: a list of numbers, or text that float() rejects
Parsed(values) == [parses |-> TRUE, values |-> values]
Unparsable == [parses |-> FALSE, values |-> <<>>]

\* float(df['成交均价'].min()) and .max()
min_price(d) == CHOOSE x \in {r.price : r \in Range(d)} : \A r \in Range(d) : x <= r.price
max_price(d) == CHOOSE x \in {r.price : r \in Range(d)} : \A r \in Range(d) : x >= r.price

\* [min_price, max_price]; of a table without rows both are NaN, and no function
\* gets them, calculate_period_stats raising first
fallback_ranges(d) == IF d = <<>> THEN <<>> ELSE <<min_price(d), max_price(d)>>

\* the boundaries main ends up with: the sorted numbers of the text, or the fallback
\* when the text does not parse or holds fewer than two numbers
configured_price_ranges(text, d) ==
    IF text.parses /\ Len(text.values) >= 2
    THEN SortBy(text.values, LAMBDA a, b : a < b)
    ELSE fallback_ranges(d)

\* the number input of an upper bound: left at the value main proposes, or a number
\* the operator typed
Proposed == [typed |-> FALSE, value |-> 0]
Typed(value) == [typed |-> TRUE, value |-> value]

\* main 1035: min_price + (max_price - min_price) * (i + 1) / num_segments for the
\* input i + 1 of num_segments - 1; the prices of the automatic runs make the
\* division exact
proposed_price(lo, hi, k, num_segments) == lo + ((hi - lo) * k) \div num_segments

\* main 1028-1037: min_price, the upper bounds read from the number inputs in their
\* order, max_price
auto_price_ranges(inputs, d) ==
    IF d = <<>> THEN <<>>
    ELSE <<min_price(d)>>
         \o [k \in 1..Len(inputs) |->
                IF inputs[k].typed THEN inputs[k].value
                ELSE proposed_price(min_price(d), max_price(d), k, Len(inputs) + 1)]
         \o <<max_price(d)>>

\* main 1007-1037: the boundaries of the chosen mode
chosen_price_ranges(custom, text, inputs, d) ==
    IF custom THEN configured_price_ranges(text, d) ELSE auto_price_ranges(inputs, d)

\* the st.error of the configuration
price_ranges_errors(text) ==
    IF ~text.parses THEN <<"bad_boundaries">>
    ELSE IF Len(text.values) < 2 THEN <<"too_few_boundaries">>
    ELSE <<>>

-----------------------------------------------------------------------------
(* groupby *)

Rows(t, P(_)) == Filter(t, P)
SumOf(t, f(_)) == SumSeq([i \in 1..Len(t) |-> f(t[i])])

Revenue(r) == r.rev
Volume(r) == r.vol
Price(r) == r.price

\* agg 'mean' of 成交均价 over a group, NaN for a group without rows
MeanPrice(t) == IF t = <<>> THEN NaN ELSE Rat(SumOf(t, Price), Len(t))

-----------------------------------------------------------------------------
(* DataFrame.pct_change() * 100 over a column *)

\* fill_method='pad': a NaN takes the last value before it that is not NaN
RECURSIVE Pad(_)
Pad(s) ==
    IF Len(s) <= 1 THEN s
    ELSE LET init == Pad(SubSeq(s, 1, Len(s) - 1))
             last == s[Len(s)]
         IN  Append(init, IF last.k = "nan" THEN init[Len(init)] ELSE last)

\* pandas before 3.0 pads the column first, pandas 3.0 does not
Padded(s, gen) == IF gen = 2 THEN Pad(s) ELSE s

\* the change against the first value of the column instead of the previous one
pct_change_from_first(s, gen) ==
    LET v == Padded(s, gen)
    IN  [i \in 1..Len(s) |-> IF i = 1 THEN NaN ELSE PctOf(v[1], v[i])]

pct_change(s, gen) ==
    LET v == Padded(s, gen)
    IN  [i \in 1..Len(s) |-> IF i = 1 THEN NaN ELSE PctOf(v[i - 1], v[i])]

-----------------------------------------------------------------------------
(* calculate_period_stats *)

\* df.groupby([period, platform]).agg(sum, sum, mean).round(2).reset_index()
period_platform_stats(d) ==
    LET keys == SortedKeys({<<r.period, r.platform>> : r \in Range(d)})
        grp(key) == Rows(d, LAMBDA r : r.period = key[1] /\ r.platform = key[2])
    IN  [i \in 1..Len(keys) |->
            LET g == grp(keys[i])
            IN  [period |-> keys[i][1], platform |-> keys[i][2],
                 rev |-> Round2(SumOf(g, Revenue), 1),
                 vol |-> Round2(SumOf(g, Volume), 1),
                 price |-> Round2(SumOf(g, Price), Len(g))]]

\* df.groupby([period]).agg(...).round(2), platform set to '所有平台'
total_stats(d) ==
    LET keys == SortedKeys({<<r.period>> : r \in Range(d)})
    IN  [i \in 1..Len(keys) |->
            LET g == Rows(d, LAMBDA r : r.period = keys[i][1])
            IN  [period |-> keys[i][1], platform |-> AllPlatforms,
                 rev |-> Round2(SumOf(g, Revenue), 1),
                 vol |-> Round2(SumOf(g, Volume), 1),
                 price |-> Round2(SumOf(g, Price), Len(g))]]

\* one platform's rows in period order with the three change columns
with_changes(platform_data, gen) ==
    LET t == SortBy(platform_data, LAMBDA a, b : a.period < b.period)
        dr == pct_change([i \in 1..Len(t) |-> Num(t[i].rev)], gen)
        dv == pct_change([i \in 1..Len(t) |-> Num(t[i].vol)], gen)
        dp == pct_change([i \in 1..Len(t) |-> Num(t[i].price)], gen)
    IN  [i \in 1..Len(t) |->
            [period |-> t[i].period, platform |-> t[i].platform,
             rev |-> t[i].rev, vol |-> t[i].vol, price |-> t[i].price,
             d_rev |-> dr[i], d_vol |-> dv[i], d_price |-> dp[i]]]

\* the change columns computed over the concatenated table, not platform by platform
calculate_period_stats_over_all_rows(d, gen) ==
    with_changes(period_platform_stats(d) \o total_stats(d), gen)

calculate_period_stats(d, gen) ==
    LET all_stats == period_platform_stats(d) \o total_stats(d)
        platforms == Unique(all_stats, LAMBDA r : r.platform)
    IN  Concat([i \in 1..Len(platforms) |->
            with_changes(Rows(all_stats, LAMBDA r : r.platform = platforms[i]), gen)])

-----------------------------------------------------------------------------
(* calculate_brand_share *)

\* groupby drops the rows whose brand is missing (NaN)
HasBrand(r) == r.brand # Missing

\* brand_platform_stats with every share taken of the period total over all platforms
brand_platform_stats_of_period_total(d) ==
    LET keys == SortedKeys({<<r.period, r.platform, r.brand>> : r \in {x \in Range(d) : HasBrand(x)}})
    IN  [i \in 1..Len(keys) |->
            LET g == Rows(d, LAMBDA r : r.period = keys[i][1] /\ r.platform = keys[i][2]
                                        /\ r.brand = keys[i][3])
                tot == Rows(d, LAMBDA r : r.period = keys[i][1])
            IN  [period |-> keys[i][1], platform |-> keys[i][2], brand |-> keys[i][3],
                 rev |-> SumOf(g, Revenue), vol |-> SumOf(g, Volume),
                 rev_share |-> SharePct(SumOf(g, Revenue), SumOf(tot, Revenue)),
                 vol_share |-> SharePct(SumOf(g, Volume), SumOf(tot, Volume))]]

\* df.groupby([period, platform, '品牌']).agg(sum, sum) with both share columns
brand_platform_stats(d) ==
    LET keys == SortedKeys({<<r.period, r.platform, r.brand>> : r \in {x \in Range(d) : HasBrand(x)}})
    IN  [i \in 1..Len(keys) |->
            LET g == Rows(d, LAMBDA r : r.period = keys[i][1] /\ r.platform = keys[i][2]
                                        /\ r.brand = keys[i][3])
                \* period_platform_totals.loc[(period, platform)]
                tot == Rows(d, LAMBDA r : r.period = keys[i][1] /\ r.platform = keys[i][2])
            IN  [period |-> keys[i][1], platform |-> keys[i][2], brand |-> keys[i][3],
                 rev |-> SumOf(g, Revenue), vol |-> SumOf(g, Volume),
                 rev_share |-> SharePct(SumOf(g, Revenue), SumOf(tot, Revenue)),
                 vol_share |-> SharePct(SumOf(g, Volume), SumOf(tot, Volume))]]

\* all_platform_brand_stats grouping by brand alone, the period of the row ignored
all_platform_brand_stats_over_periods(d) ==
    LET keys == SortedKeys({<<r.period, r.brand>> : r \in {x \in Range(d) : HasBrand(x)}})
    IN  [i \in 1..Len(keys) |->
            LET g == Rows(d, LAMBDA r : r.brand = keys[i][2])
                tot == Rows(d, LAMBDA r : r.period = keys[i][1])
            IN  [period |-> keys[i][1], platform |-> AllPlatforms, brand |-> keys[i][2],
                 rev |-> SumOf(g, Revenue), vol |-> SumOf(g, Volume),
                 rev_share |-> SharePct(SumOf(g, Revenue), SumOf(tot, Revenue)),
                 vol_share |-> SharePct(SumOf(g, Volume), SumOf(tot, Volume))]]

\* df.groupby([period, '品牌']) with platform '所有平台' and the shares of the period total
all_platform_brand_stats(d) ==
    LET keys == SortedKeys({<<r.period, r.brand>> : r \in {x \in Range(d) : HasBrand(x)}})
    IN  [i \in 1..Len(keys) |->
            LET g == Rows(d, LAMBDA r : r.period = keys[i][1] /\ r.brand = keys[i][2])
                \* all_platform_totals.loc[period]
                tot == Rows(d, LAMBDA r : r.period = keys[i][1])
            IN  [period |-> keys[i][1], platform |-> AllPlatforms, brand |-> keys[i][2],
                 rev |-> SumOf(g, Revenue), vol |-> SumOf(g, Volume),
                 rev_share |-> SharePct(SumOf(g, Revenue), SumOf(tot, Revenue)),
                 vol_share |-> SharePct(SumOf(g, Volume), SumOf(tot, Volume))]]

calculate_brand_share(d) == brand_platform_stats(d) \o all_platform_brand_stats(d)

\* main: the ten rows of largest revenue of every (period, platform) of the brand table
\* every brand row kept, without head(10)
top_10_selection_of_all(bs) ==
    LET ps == Unique(bs, LAMBDA r : r.period)
        pls == Unique(bs, LAMBDA r : r.platform)
    IN  Concat([i \in 1..Len(ps) |-> Concat([j \in 1..Len(pls) |->
            SortBy(Rows(bs, LAMBDA r : r.period = ps[i] /\ r.platform = pls[j]),
                   LAMBDA a, b : a.rev > b.rev)])])

top_10_selection(bs) ==
    LET ps == Unique(bs, LAMBDA r : r.period)
        pls == Unique(bs, LAMBDA r : r.platform)
    IN  Concat([i \in 1..Len(ps) |-> Concat([j \in 1..Len(pls) |->
            HeadN(SortBy(Rows(bs, LAMBDA r : r.period = ps[i] /\ r.platform = pls[j]),
                         LAMBDA a, b : a.rev > b.rev), Top10)])])

-----------------------------------------------------------------------------
(* Price segments: pd.cut and the groupby over the categorical column *)

\* labels = [f"{ranges[i]}-{ranges[i+1]}" ...]: segment i is labelled by its two boundaries
labels(ranges) == [i \in 1..(Len(ranges) - 1) |-> <<ranges[i], ranges[i + 1]>>]

\* pd.cut(price, bins=ranges, labels=labels): right=True, include_lowest=False, so
\* segment i holds ranges[i] < price <= ranges[i+1]; any other price has no category
cut(price, ranges) ==
    IF \E i \in 1..(Len(ranges) - 1) : ranges[i] < price /\ price <= ranges[i + 1]
    THEN CHOOSE i \in 1..(Len(ranges) - 1) : ranges[i] < price /\ price <= ranges[i + 1]
    ELSE Missing

\* pd.cut raises ValueError for boundaries that decrease ("bins must increase
\* monotonically") and for equal boundaries ("Bin edges must be unique") unless the
\* list has exactly two entries, which pandas lets through: no price is then in
\* the one segment
cut_raises(ranges) ==
    \/ \E i \in 1..(Len(ranges) - 1) : ranges[i] > ranges[i + 1]
    \/ Len(ranges) # 2 /\ \E i \in 1..(Len(ranges) - 1) : ranges[i] = ranges[i + 1]

Segments(ranges) == 1..(Len(ranges) - 1)
Periods(d) == {r.period : r \in Range(d)}
Platforms(d) == {r.platform : r \in Range(d)}
Brands(d) == {r.brand : r \in Range(d)} \ {Missing}
Products(d) == {<<r.name, r.link>> : r \in Range(d)}

HasSegment(r, ranges) == cut(r.price, ranges) # Missing

\* The keys of df.groupby([..., '价位段', ...]).  With observed=False (the default
\* before pandas 3.0) the result holds the cartesian product of the values of all
\* groupers, every category included; with observed=True only the observed keys.
\* Rows with a NaN key (no segment, no brand) are dropped either way.
keys_period_platform_segment(d, ranges, gen) ==
    IF gen = 2
    THEN {<<p, pl, s>> : p \in Periods(d), pl \in Platforms(d), s \in Segments(ranges)}
    ELSE {<<r.period, r.platform, cut(r.price, ranges)>> :
              r \in {x \in Range(d) : HasSegment(x, ranges)}}

keys_period_segment(d, ranges, gen) ==
    IF gen = 2
    THEN {<<p, s>> : p \in Periods(d), s \in Segments(ranges)}
    ELSE {<<r.period, cut(r.price, ranges)>> : r \in {x \in Range(d) : HasSegment(x, ranges)}}

keys_period_platform_segment_brand(d, ranges, gen) ==
    IF gen = 2
    THEN {<<p, pl, s, b>> : p \in Periods(d), pl \in Platforms(d), s \in Segments(ranges),
                            b \in Brands(d)}
    ELSE {<<r.period, r.platform, cut(r.price, ranges), r.brand>> :
              r \in {x \in Range(d) : HasSegment(x, ranges) /\ HasBrand(x)}}

keys_period_segment_brand(d, ranges, gen) ==
    IF gen = 2
    THEN {<<p, s, b>> : p \in Periods(d), s \in Segments(ranges), b \in Brands(d)}
    ELSE {<<r.period, cut(r.price, ranges), r.brand>> :
              r \in {x \in Range(d) : HasSegment(x, ranges) /\ HasBrand(x)}}

keys_period_platform_segment_product(d, ranges, gen) ==
    IF gen = 2
    THEN {<<p, pl, s, pr[1], pr[2]>> : p \in Periods(d), pl \in Platforms(d),
                                        s \in Segments(ranges), pr \in Products(d)}
    ELSE {<<r.period, r.platform, cut(r.price, ranges), r.name, r.link>> :
              r \in {x \in Range(d) : HasSegment(x, ranges)}}

keys_period_segment_product(d, ranges, gen) ==
    IF gen = 2
    THEN {<<p, s, pr[1], pr[2]>> : p \in Periods(d), s \in Segments(ranges), pr \in Products(d)}
    ELSE {<<r.period, cut(r.price, ranges), r.name, r.link>> :
              r \in {x \in Range(d) : HasSegment(x, ranges)}}

-----------------------------------------------------------------------------
(* analyze_price_segments *)

\* groupby([period, platform, '价位段']) with the shares of the (period, platform) totals,
\* which are sums over all records of the stratum, segmented or not
segment_platform_stats(d, ranges, gen) ==
    LET keys == SortedKeys(keys_period_platform_segment(d, ranges, gen))
    IN  [i \in 1..Len(keys) |->
            LET g == Rows(d, LAMBDA r : r.period = keys[i][1] /\ r.platform = keys[i][2]
                                        /\ cut(r.price, ranges) = keys[i][3])
                tot == Rows(d, LAMBDA r : r.period = keys[i][1] /\ r.platform = keys[i][2])
            IN  [period |-> keys[i][1], platform |-> keys[i][2], segment |-> keys[i][3],
                 rev |-> SumOf(g, Revenue), vol |-> SumOf(g, Volume),
                 rev_share |-> SharePct(SumOf(g, Revenue), SumOf(tot, Revenue)),
                 vol_share |-> SharePct(SumOf(g, Volume), SumOf(tot, Volume))]]

all_platform_segment_stats(d, ranges, gen) ==
    LET keys == SortedKeys(keys_period_segment(d, ranges, gen))
    IN  [i \in 1..Len(keys) |->
            LET g == Rows(d, LAMBDA r : r.period = keys[i][1]
                                        /\ cut(r.price, ranges) = keys[i][2])
                tot == Rows(d, LAMBDA r : r.period = keys[i][1])
            IN  [period |-> keys[i][1], platform |-> AllPlatforms, segment |-> keys[i][2],
                 rev |-> SumOf(g, Revenue), vol |-> SumOf(g, Volume),
                 rev_share |-> SharePct(SumOf(g, Revenue), SumOf(tot, Revenue)),
                 vol_share |-> SharePct(SumOf(g, Volume), SumOf(tot, Volume))]]

\* one (platform, segment) in period order with the two share change columns
with_share_changes(segment_data, gen) ==
    LET t == SortBy(segment_data, LAMBDA a, b : a.period < b.period)
        dr == pct_change([i \in 1..Len(t) |-> t[i].rev_share], gen)
        dv == pct_change([i \in 1..Len(t) |-> t[i].vol_share], gen)
    IN  [i \in 1..Len(t) |->
            [period |-> t[i].period, platform |-> t[i].platform, segment |-> t[i].segment,
             rev |-> t[i].rev, vol |-> t[i].vol,
             rev_share |-> t[i].rev_share, vol_share |-> t[i].vol_share,
             d_rev_share |-> dr[i], d_vol_share |-> dv[i]]]

analyze_price_segments(d, ranges, gen) ==
    LET all_segment_stats == segment_platform_stats(d, ranges, gen)
                             \o all_platform_segment_stats(d, ranges, gen)
        platforms == Unique(all_segment_stats, LAMBDA r : r.platform)
        of(pl) == Rows(all_segment_stats, LAMBDA r : r.platform = pl)
        segs(pl) == Unique(of(pl), LAMBDA r : r.segment)
    IN  Concat([i \in 1..Len(platforms) |->
            Concat([j \in 1..Len(segs(platforms[i])) |->
                with_share_changes(
                    Rows(of(platforms[i]), LAMBDA r : r.segment = segs(platforms[i])[j]),
                    gen)])])

\* The function raises: pd.cut on boundaries that do not increase; the lookup
\* period_platform_totals.loc[(period, platform)] (KeyError) for a row of the cartesian
\* product whose (period, platform) has no record; the assignment of the share column
\* (ValueError) when the grouped table has no row, apply then returning a DataFrame.
analyze_price_segments_raises(d, ranges, gen) ==
    \/ cut_raises(ranges)
    \/ \E key \in keys_period_platform_segment(d, ranges, gen) :
           ~\E r \in Range(d) : r.period = key[1] /\ r.platform = key[2]
    \/ keys_period_platform_segment(d, ranges, gen) = {}

-----------------------------------------------------------------------------
(* get_top_brands_by_segment *)

\* groupby([period, platform, '价位段', '品牌']) with the shares of the segment totals;
\* calculate_share divides numpy numbers, so a zero total gives NaN and nothing is
\* raised for its except branch to catch
segment_brand_stats(d, ranges, gen) ==
    LET keys == SortedKeys(keys_period_platform_segment_brand(d, ranges, gen))
    IN  [i \in 1..Len(keys) |->
            LET g == Rows(d, LAMBDA r : r.period = keys[i][1] /\ r.platform = keys[i][2]
                                        /\ cut(r.price, ranges) = keys[i][3]
                                        /\ r.brand = keys[i][4])
                \* segment_totals.loc[(period, platform, segment)]
                tot == Rows(d, LAMBDA r : r.period = keys[i][1] /\ r.platform = keys[i][2]
                                          /\ cut(r.price, ranges) = keys[i][3])
            IN  [period |-> keys[i][1], platform |-> keys[i][2], segment |-> keys[i][3],
                 brand |-> keys[i][4],
                 rev |-> SumOf(g, Revenue), vol |-> SumOf(g, Volume),
                 rev_share |-> SharePct(SumOf(g, Revenue), SumOf(tot, Revenue)),
                 vol_share |-> SharePct(SumOf(g, Volume), SumOf(tot, Volume))]]

all_platform_segment_brand_stats(d, ranges, gen) ==
    LET keys == SortedKeys(keys_period_segment_brand(d, ranges, gen))
    IN  [i \in 1..Len(keys) |->
            LET g == Rows(d, LAMBDA r : r.period = keys[i][1]
                                        /\ cut(r.price, ranges) = keys[i][2]
                                        /\ r.brand = keys[i][3])
                \* all_platform_segment_totals.loc[(period, segment)]
                tot == Rows(d, LAMBDA r : r.period = keys[i][1]
                                          /\ cut(r.price, ranges) = keys[i][2])
            IN  [period |-> keys[i][1], platform |-> AllPlatforms, segment |-> keys[i][2],
                 brand |-> keys[i][3],
                 rev |-> SumOf(g, Revenue), vol |-> SumOf(g, Volume),
                 rev_share |-> SharePct(SumOf(g, Revenue), SumOf(tot, Revenue)),
                 vol_share |-> SharePct(SumOf(g, Volume), SumOf(tot, Volume))]]

\* sort_values(by='零售额', ascending=False).head(n) of one stratum
top_n(stratum, n) == HeadN(SortBy(stratum, LAMBDA a, b : a.rev > b.rev), n)

\* the three nested loops over the unique periods, platforms and segments of a table
top_n_per_stratum(t, n) ==
    LET ps == Unique(t, LAMBDA r : r.period)
        pls == Unique(t, LAMBDA r : r.platform)
        sgs == Unique(t, LAMBDA r : r.segment)
    IN  Concat([i \in 1..Len(ps) |-> Concat([j \in 1..Len(pls) |->
            Concat([m \in 1..Len(sgs) |->
                top_n(Rows(t, LAMBDA r : r.period = ps[i] /\ r.platform = pls[j]
                                         /\ r.segment = sgs[m]), n)])])])

get_top_brands_by_segment(d, ranges, gen, n) ==
    top_n_per_stratum(segment_brand_stats(d, ranges, gen), n)
    \o top_n_per_stratum(all_platform_segment_brand_stats(d, ranges, gen), n)

get_top_brands_by_segment_raises(d, ranges, gen) == cut_raises(ranges)

-----------------------------------------------------------------------------
(* get_top_products_by_segment *)

segment_product_stats(d, ranges, gen) ==
    LET keys == SortedKeys(keys_period_platform_segment_product(d, ranges, gen))
    IN  [i \in 1..Len(keys) |->
            LET g == Rows(d, LAMBDA r : r.period = keys[i][1] /\ r.platform = keys[i][2]
                                        /\ cut(r.price, ranges) = keys[i][3]
                                        /\ r.name = keys[i][4] /\ r.link = keys[i][5])
            IN  [period |-> keys[i][1], platform |-> keys[i][2], segment |-> keys[i][3],
                 name |-> keys[i][4], link |-> keys[i][5],
                 rev |-> SumOf(g, Revenue), vol |-> SumOf(g, Volume),
                 price |-> MeanPrice(g)]]

all_platform_segment_product_stats(d, ranges, gen) ==
    LET keys == SortedKeys(keys_period_segment_product(d, ranges, gen))
    IN  [i \in 1..Len(keys) |->
            LET g == Rows(d, LAMBDA r : r.period = keys[i][1]
                                        /\ cut(r.price, ranges) = keys[i][2]
                                        /\ r.name = keys[i][3] /\ r.link = keys[i][4])
            IN  [period |-> keys[i][1], platform |-> AllPlatforms, segment |-> keys[i][2],
                 name |-> keys[i][3], link |-> keys[i][4],
                 rev |-> SumOf(g, Revenue), vol |-> SumOf(g, Volume),
                 price |-> MeanPrice(g)]]

get_top_products_by_segment(d, ranges, gen, n) ==
    top_n_per_stratum(segment_product_stats(d, ranges, gen), n)
    \o top_n_per_stratum(all_platform_segment_product_stats(d, ranges, gen), n)

get_top_products_by_segment_raises(d, ranges, gen) == cut_raises(ranges)

\* calculate_period_stats raises on a table without rows: pd.concat of an empty list
calculate_period_stats_raises(d) == d = <<>>

\* calculate_brand_share raises when no record has a brand: the share column is
\* assigned the DataFrame that apply returns for a table without rows
calculate_brand_share_raises(d) == \A r \in Range(d) : ~HasBrand(r)

-----------------------------------------------------------------------------
(* format_excel_output: fillna(0) and the long-format sheets *)

\* a cell without a value: None in a row dict, NaN once the rows are a DataFrame
NoneCell == [k |-> "none", n |-> 0, d |-> 1]
HasValue(c) == c.k # "none" /\ c.k # "nan"

\* fillna(0) on one cell
Fill(x) == IF x.k = "nan" THEN Num(0) ELSE x

fillna_period_stats(t) ==
    [i \in 1..Len(t) |-> [t[i] EXCEPT !.d_rev = Fill(@), !.d_vol = Fill(@), !.d_price = Fill(@)]]

fillna_shares(t) ==
    [i \in 1..Len(t) |-> [t[i] EXCEPT !.rev_share = Fill(@), !.vol_share = Fill(@)]]

fillna_segment_stats(t) ==
    [i \in 1..Len(t) |-> [t[i] EXCEPT !.rev_share = Fill(@), !.vol_share = Fill(@),
                                      !.d_rev_share = Fill(@), !.d_vol_share = Fill(@)]]

fillna_top_products(t) == [i \in 1..Len(t) |-> [t[i] EXCEPT !.price = Fill(@)]]

\* no table in place of an empty top-N table
no_placeholder == <<>>

\* the single-column table written in place of an empty top-N table
placeholder == <<[hint |-> "no data"]>>

\* sorted(periods)
SortedPeriods(t) == Ascending({r.period : r \in Range(t)})

\* the value of column f of the first row of t for the period, None without a row
ValueAt(t, period, f(_)) ==
    LET rows == Rows(t, LAMBDA r : r.period = period)
    IN  IF rows = <<>> THEN NoneCell ELSE f(rows[1])

-----------------------------------------------------------------------------
(* create_period_comparison_sheet *)

Metrics == <<"rev", "vol", "price">>
MetricOf(r, metric) == IF metric = "rev" THEN Num(r.rev)
                       ELSE IF metric = "vol" THEN Num(r.vol) ELSE Num(r.price)

\* the change without the test of the previous value against 0
unguarded_change(prev, curr) ==
    IF prev.k # "none" /\ curr.k # "none" THEN PctOf(prev, curr)
    ELSE NoneCell

\* ((row[curr] / row[prev]) - 1) * 100 unless a value is None or the previous one is 0
guarded_change(prev, curr) ==
    IF prev.k # "none" /\ curr.k # "none" /\ prev # Num(0) THEN PctOf(prev, curr)
    ELSE NoneCell

period_comparison_row(platform_data, platform, metric, periods) ==
    LET value == [p \in Range(periods) |->
                     ValueAt(platform_data, p, LAMBDA r : MetricOf(r, metric))]
    IN  [platform |-> platform, metric |-> metric, value |-> value,
         change |-> [pair \in {<<periods[i], periods[i - 1]>> : i \in 2..Len(periods)} |->
                        guarded_change(value[pair[2]], value[pair[1]])]]

create_period_comparison_sheet(stats) ==
    LET periods == SortedPeriods(stats)
        platforms == Unique(stats, LAMBDA r : r.platform)
        data(pl) == Rows(stats, LAMBDA r : r.platform = pl)
    IN  IF Len(periods) <= 1 THEN <<>>
        ELSE Concat([i \in 1..Len(platforms) |->
                IF Len(data(platforms[i])) > 1
                THEN [m \in 1..Len(Metrics) |->
                         period_comparison_row(data(platforms[i]), platforms[i],
                                               Metrics[m], periods)]
                ELSE <<>>])

-----------------------------------------------------------------------------
(* create_brand_comparison_sheet, create_segment_comparison_sheet,
   create_top_brands_comparison_sheet: the share comparison of one entity *)

\* The loop over sorted(periods) that keeps prev_share / prev_period: the change
\* columns of a row, keyed by <<period, previous period with a value>>.
\* diff is the change written for a pair, skip says when no column is written.
chained_changes(value, diff(_, _), skip(_)) ==
    LET with == {p \in DOMAIN value : value[p].k # "none"}
        prev(p) == CHOOSE q \in with : q < p /\ \A x \in with : x < p => x <= q
        pairs == {<<p, prev(p)>> : p \in {x \in with : \E q \in with : q < x}}
    IN  [pair \in {x \in pairs : ~skip(value[x[2]])} |->
            diff(value[pair[2]], value[pair[1]])]

\* row[share_key] - prev_share, written for every pair
share_changes(share) ==
    chained_changes(share, LAMBDA prev, curr : FSub(curr, prev), LAMBDA prev : FALSE)

\* the row of one entity: its revenue and share in every period of periods
share_comparison_row(entity_data, periods) ==
    LET rev == [p \in periods |-> ValueAt(entity_data, p, LAMBDA r : Num(r.rev))]
        share == [p \in periods |-> ValueAt(entity_data, p, LAMBDA r : r.rev_share)]
    IN  [rev |-> rev, share |-> share, change |-> share_changes(share)]

create_brand_comparison_sheet(t) ==
    LET platforms == Unique(t, LAMBDA r : r.platform)
        data(pl) == Rows(t, LAMBDA r : r.platform = pl)
        brands(pl) == Unique(data(pl), LAMBDA r : r.brand)
        periods(pl) == {r.period : r \in Range(data(pl))}
        of(pl, b) == Rows(data(pl), LAMBDA r : r.brand = b)
    IN  IF t = <<>> \/ Cardinality({r.period : r \in Range(t)}) <= 1 THEN <<>>
        ELSE Concat([i \in 1..Len(platforms) |->
                Concat([j \in 1..Len(brands(platforms[i])) |->
                    LET pl == platforms[i]
                        b == brands(pl)[j]
                    IN  IF Len(of(pl, b)) > 1
                        THEN <<[platform |-> pl, brand |-> b,
                                cols |-> share_comparison_row(of(pl, b), periods(pl))]>>
                        ELSE <<>>])])

create_segment_comparison_sheet(t) ==
    LET platforms == Unique(t, LAMBDA r : r.platform)
        data(pl) == Rows(t, LAMBDA r : r.platform = pl)
        segments(pl) == Unique(data(pl), LAMBDA r : r.segment)
        periods(pl) == {r.period : r \in Range(data(pl))}
        of(pl, sg) == Rows(data(pl), LAMBDA r : r.segment = sg)
    IN  IF t = <<>> \/ Cardinality({r.period : r \in Range(t)}) <= 1 THEN <<>>
        ELSE Concat([i \in 1..Len(platforms) |->
                Concat([j \in 1..Len(segments(platforms[i])) |->
                    LET pl == platforms[i]
                        sg == segments(pl)[j]
                    IN  IF Len(of(pl, sg)) > 1
                        THEN <<[platform |-> pl, segment |-> sg,
                                cols |-> share_comparison_row(of(pl, sg), periods(pl))]>>
                        ELSE <<>>])])

\* the value of the last period's column of a row, for the final sort_values
\* (ascending=False, rows without a value last)
LastValue(value, last) == IF last \in DOMAIN value /\ HasValue(value[last]) THEN value[last]
                          ELSE NoneCell
ValueAbove(x, y) == HasValue(x) /\ (~HasValue(y) \/ x.n * y.d > y.n * x.d)

create_top_brands_comparison_sheet(t) ==
    LET platforms == Unique(t, LAMBDA r : r.platform)
        data(pl) == Rows(t, LAMBDA r : r.platform = pl)
        segments(pl) == Unique(data(pl), LAMBDA r : r.segment)
        sdata(pl, sg) == Rows(data(pl), LAMBDA r : r.segment = sg)
        brands(pl, sg) == Unique(sdata(pl, sg), LAMBDA r : r.brand)
        periods(pl, sg) == {r.period : r \in Range(sdata(pl, sg))}
        of(pl, sg, b) == Rows(sdata(pl, sg), LAMBDA r : r.brand = b)
        last == SortedPeriods(t)[Len(SortedPeriods(t))]
        comparison_data ==
            Concat([i \in 1..Len(platforms) |->
                Concat([j \in 1..Len(segments(platforms[i])) |->
                    Concat([m \in 1..Len(brands(platforms[i], segments(platforms[i])[j])) |->
                        LET pl == platforms[i]
                            sg == segments(pl)[j]
                            b == brands(pl, sg)[m]
                        IN  IF Len(of(pl, sg, b)) > 1
                            THEN <<[platform |-> pl, segment |-> sg, brand |-> b,
                                    cols |-> share_comparison_row(of(pl, sg, b),
                                                                  periods(pl, sg))]>>
                            ELSE <<>>])])])
    IN  IF t = <<>> \/ Cardinality({r.period : r \in Range(t)}) <= 1 THEN <<>>
        ELSE IF \A r \in Range(comparison_data) : last \notin DOMAIN r.cols.share
        THEN comparison_data
        \* sort_values(by=[平台, 价位段, last share], ascending=[True, True, False]);
        \* the segment labels are ordered here as their boundaries are
        ELSE SortBy(comparison_data, LAMBDA a, b :
                \/ a.platform < b.platform
                \/ a.platform = b.platform /\ a.segment < b.segment
                \/ a.platform = b.platform /\ a.segment = b.segment
                   /\ ValueAbove(LastValue(a.cols.share, last), LastValue(b.cols.share, last)))

-----------------------------------------------------------------------------
(* create_top_products_comparison_sheet *)

\* the periods of the whole segment instead of those of the product
product_period_count_of_segment(t, platform, segment, name) ==
    {r.period : r \in {x \in Range(t) : x.platform = platform /\ x.segment = segment}}

\* product_period_count[(platform, segment, name)]: the periods the product has rows in
product_period_count(t, platform, segment, name) ==
    {r.period : r \in {x \in Range(t) : x.platform = platform /\ x.segment = segment
                                        /\ x.name = name}}

\* ((row[value_key] / prev_value) - 1) * 100, no column when the previous value is 0
pct_changes(value) ==
    chained_changes(value, LAMBDA prev, curr : PctOf(prev, curr), LAMBDA prev : prev = Num(0))

product_comparison_row(product_data, periods) ==
    LET rev == [p \in periods |-> ValueAt(product_data, p, LAMBDA r : Num(r.rev))]
        vol == [p \in periods |-> ValueAt(product_data, p, LAMBDA r : Num(r.vol))]
        price == [p \in periods |-> ValueAt(product_data, p, LAMBDA r : r.price)]
    IN  [rev |-> rev, vol |-> vol, price |-> price,
         d_rev |-> pct_changes(rev), d_vol |-> pct_changes(vol),
         d_price |-> pct_changes(price)]

create_top_products_comparison_sheet(t) ==
    LET platforms == Unique(t, LAMBDA r : r.platform)
        data(pl) == Rows(t, LAMBDA r : r.platform = pl)
        segments(pl) == Unique(data(pl), LAMBDA r : r.segment)
        sdata(pl, sg) == Rows(data(pl), LAMBDA r : r.segment = sg)
        periods(pl, sg) == {r.period : r \in Range(sdata(pl, sg))}
        count(pl, sg, nm) == Cardinality(product_period_count(t, pl, sg, nm))
        \* sorted(..., key=count, reverse=True): stable
        sorted_products(pl, sg) ==
            SortBy(Unique(sdata(pl, sg), LAMBDA r : r.name),
                   LAMBDA a, b : count(pl, sg, a) > count(pl, sg, b))
        of(pl, sg, nm) == Rows(sdata(pl, sg), LAMBDA r : r.name = nm)
        last == SortedPeriods(t)[Len(SortedPeriods(t))]
        comparison_data ==
            Concat([i \in 1..Len(platforms) |->
                Concat([j \in 1..Len(segments(platforms[i])) |->
                    Concat([m \in 1..Len(sorted_products(platforms[i],
                                                         segments(platforms[i])[j])) |->
                        LET pl == platforms[i]
                            sg == segments(pl)[j]
                            nm == sorted_products(pl, sg)[m]
                        IN  IF count(pl, sg, nm) > 1
                            THEN <<[platform |-> pl, segment |-> sg, name |-> nm,
                                    link |-> of(pl, sg, nm)[1].link,
                                    cols |-> product_comparison_row(of(pl, sg, nm),
                                                                    periods(pl, sg))]>>
                            ELSE <<>>])])])
    IN  IF t = <<>> \/ Cardinality({r.period : r \in Range(t)}) <= 1 THEN <<>>
        ELSE IF \A r \in Range(comparison_data) : last \notin DOMAIN r.cols.rev
        THEN comparison_data
        \* sort_values(by=[平台, 价位段, last 零售额], ascending=[True, True, False])
        ELSE SortBy(comparison_data, LAMBDA a, b :
                \/ a.platform < b.platform
                \/ a.platform = b.platform /\ a.segment < b.segment
                \/ a.platform = b.platform /\ a.segment = b.segment
                   /\ ValueAbove(LastValue(a.cols.rev, last), LastValue(b.cols.rev, last)))

-----------------------------------------------------------------------------
(* The workbook written by format_excel_output *)

LongSheets == {"period_stats", "brand_share", "segment_stats", "top_brands", "top_products"}

\* every comparison sheet written, with or without rows
format_excel_output_of_all_sheets(ps, t10, ss, tb, tp) ==
    LET fps == fillna_period_stats(ps)
        ft10 == fillna_shares(t10)
        fss == fillna_segment_stats(ss)
        ftb == fillna_shares(tb)
        ftp == fillna_top_products(tp)
        table == [period_stats |-> fps,
                  brand_share |-> ft10,
                  segment_stats |-> fss,
                  top_brands |-> IF ftb # <<>> THEN ftb ELSE placeholder,
                  top_products |-> IF ftp # <<>> THEN ftp ELSE placeholder,
                  period_comparison |-> create_period_comparison_sheet(fps),
                  brand_comparison |-> create_brand_comparison_sheet(ft10),
                  segment_comparison |-> create_segment_comparison_sheet(fss),
                  top_brands_comparison |-> create_top_brands_comparison_sheet(ftb),
                  top_products_comparison |-> create_top_products_comparison_sheet(ftp)]
    IN  [written |-> DOMAIN table,
         table |-> table]

\* the comparison sheets that are written: those with at least one row; the last two
\* builders are called only for a non-empty table with more than one period
format_excel_output(ps, t10, ss, tb, tp) ==
    LET fps == fillna_period_stats(ps)
        ft10 == fillna_shares(t10)
        fss == fillna_segment_stats(ss)
        ftb == fillna_shares(tb)
        ftp == fillna_top_products(tp)
        table == [period_stats |-> fps,
                  brand_share |-> ft10,
                  segment_stats |-> fss,
                  top_brands |-> IF ftb # <<>> THEN ftb ELSE placeholder,
                  top_products |-> IF ftp # <<>> THEN ftp ELSE placeholder,
                  period_comparison |-> create_period_comparison_sheet(fps),
                  brand_comparison |-> create_brand_comparison_sheet(ft10),
                  segment_comparison |-> create_segment_comparison_sheet(fss),
                  top_brands_comparison |-> create_top_brands_comparison_sheet(ftb),
                  top_products_comparison |-> create_top_products_comparison_sheet(ftp)]
    IN  [written |-> LongSheets \cup {nm \in DOMAIN table \ LongSheets : table[nm] # <<>>},
         table |-> table]

NoWorkbook == [written |-> {}, table |-> <<>>]

\* main's tables with a '价位段' column
SegmentTables == {"segment_stats", "top_brands", "top_products"}

\* before the segment functions have run
NoColumns == [t \in SegmentTables |-> "none"]

\* the '价位段' column of a table the segment functions return: the categorical of
\* pd.cut, carried through groupby, reset_index and pd.concat; the pd.DataFrame() that
\* the top-N functions return when they collected no stratum has no column
cut_dtype(t) == IF t = <<>> THEN "none" ELSE "category"

\* format_excel_output 426-449: every categorical column of the tables it is handed is
\* replaced, in the caller's table, by its astype(str)
astype_str(dtypes) ==
    [t \in DOMAIN dtypes |-> IF dtypes[t] = "category" THEN "str" ELSE dtypes[t]]

-----------------------------------------------------------------------------
(* The inputs of a run: the builds, the configuration and the uploaded files *)

\* pandas before 3.0 (groupby observed=False, pct_change pads) and pandas 3.0
Builds == {2, 3}

\* main: the upload slots, platform by platform, each in the configured period order
Slots(nplatforms, order) ==
    [i \in 1..(nplatforms * Len(order)) |->
        <<((i - 1) \div Len(order)) + 1, order[((i - 1) % Len(order)) + 1]>>]

\* the files of at most budget rows drawn from rowset, and the empty slot
Files(rowset, budget) ==
    {NoFile} \cup
    {[uploaded |-> TRUE, readable |-> TRUE, columns_ok |-> TRUE, rows |-> rs] :
        rs \in UNION {[1..k -> rowset] : k \in 1..budget}}

\* every way to fill the slots with files of at most budget rows in total
RECURSIVE Uploads(_, _, _)
Uploads(slots, rowset, budget) ==
    IF slots = <<>> THEN {<<>>}
    ELSE UNION {
            {<<[platform |-> Head(slots)[1], period |-> Head(slots)[2], file |-> f]>> \o rest :
                rest \in Uploads(Tail(slots), rowset, budget - Len(f.rows))} :
            f \in Files(rowset, budget)}

Product(brand, name, rev, vol, price) ==
    [brand |-> brand, name |-> name, link |-> name, rev |-> rev, vol |-> vol, price |-> price]

InOrder(n) == [i \in 1..n |-> i]

\* the custom boundaries are chosen: no number input is shown
CustomSegments == use_custom_segments = TRUE /\ segment_inputs = <<>>

TypeInit ==
    /\ df = <<>>
    /\ pc = "uploaded"
    /\ period_stats = <<>>
    /\ brand_stats = <<>>
    /\ top_10_brands = <<>>
    /\ segment_stats = <<>>
    /\ top_brands = <<>>
    /\ top_products = <<>>
    /\ sheets = NoWorkbook
    /\ price_ranges = <<>>
    /\ errors = <<>>
    /\ segment_dtype = NoColumns

\* a run: a build, the configured periods and boundaries, and the uploads
InitWith(orders, texts, nplatforms, rowset, budget) ==
    /\ pandas \in Builds
    /\ period_labels \in orders
    /\ CustomSegments
    /\ custom_ranges_str \in texts
    /\ uploaded_files \in Uploads(Slots(nplatforms, period_labels), rowset, budget)
    /\ TypeInit

\* a run with boundaries that parse
InitOf(orders, ranges, nplatforms, rowset, budget) ==
    InitWith(orders, {Parsed(r) : r \in ranges}, nplatforms, rowset, budget)

\* Rows of the aggregation runs: products of NumBrands brands and one without a brand,
\* all in the first price segment.  Amounts are thousandths: 4 is 0.004, which
\* round(2) takes to 0.00, while 4 + 4 is taken to 0.01.
AggRows ==
    {Product(b, b, a[1], a[2], 100) : b \in 1..NumBrands,
                                      a \in {<<0, 4>>, <<4, 0>>, <<250, 1000>>}}
    \cup {Product(Missing, 0, 250, 1000, 100)}

Init == InitOf({InOrder(NumPeriods)}, {<<0, 100, 300>>}, NumPlatforms, AggRows, MaxRecords)

\* Rows of the segment runs: one product at prices on, between and outside the
\* boundaries 0, 100, 200, 300
SegPrices == {0, 50, 100, 200, 300, 400}
SegRows == {Product(1, 1, 250, 1000, p) : p \in SegPrices}
SegRanges == {<<0, 100, 300>>, <<100, 300>>, <<0, 100, 200, 300>>}

\* Rows of the delta runs: revenues 0, 90, 100, 150 in the first segment and one
\* product in the second
DeltaRows ==
    {Product(1, 1, rev, 1000, 100) : rev \in {0, 90, 100, 150}}
        \cup {Product(2, 2, 100, 500, 200)}

InitDelta ==
    InitOf({InOrder(NumPeriods + 1)}, {<<0, 100, 300>>}, NumPlatforms, DeltaRows, MaxRecords)

\* Rows of the comparison runs: NumBrands products with revenues 200 and 250, and
\* one of them with revenue 0
CompareRows ==
    {Product(b, b, rev, 1000, 100) : b \in 1..NumBrands, rev \in {200, 250}}
        \cup {Product(1, 1, 0, 1000, 100)}

InitCompare ==
    InitOf({InOrder(NumPeriods + 1)}, {<<0, 100, 300>>}, NumPlatforms, CompareRows, MaxRecords)

\* Files of the wide runs: one more brand than the top-10 selection keeps, all of
\* distinct revenue, with at most one brand absent and at most one brand (weak) of
\* the smallest revenue
WideBrands == 1..(Top10 + 1)
WideFile(absent, weak) ==
    LET present == Ascending(WideBrands \ {absent})
    IN  [uploaded |-> TRUE, readable |-> TRUE, columns_ok |-> TRUE,
         rows |-> [i \in 1..Len(present) |->
                      Product(present[i], present[i],
                              IF present[i] = weak THEN 10 ELSE 1000 + 10 * present[i],
                              1000, 100)]]
WideFiles ==
    {WideFile(absent, weak) : absent \in {Missing, 1, Top10 + 1},
                              weak \in {Missing, 1, 2, Top10 + 1}}

InitWide ==
    /\ pandas \in Builds
    /\ period_labels = InOrder(NumPeriods)
    /\ CustomSegments
    /\ custom_ranges_str = Parsed(<<0, 100, 300>>)
    /\ uploaded_files \in
           LET slots == Slots(1, period_labels)
           IN  {[i \in 1..Len(slots) |->
                    [platform |-> slots[i][1], period |-> slots[i][2], file |-> f[i]]] :
                f \in [1..Len(slots) -> WideFiles]}
    /\ TypeInit

\* Rows of the ordered runs: one product with revenues 90, 100 and 150
OrderRows == {Product(1, 1, rev, 1000, 100) : rev \in {90, 100, 150}}

\* the configured orders of three period labels: sorted as the labels sort, and not
Orders == {<<1, 2, 3>>, <<2, 1, 3>>, <<3, 1, 2>>}

InitOrder == InitOf(Orders, {<<0, 100, 300>>}, 1, OrderRows, MaxRecords)

\* Files of the ingestion runs: an empty slot, a file that pd.read_excel rejects, a
\* file without one of the required columns, and files with zero, one and two rows
IngestRows == <<Product(1, 1, 250, 1000, 100), Product(2, 2, 250, 1000, 200)>>
IngestFiles ==
    {NoFile,
     [uploaded |-> TRUE, readable |-> FALSE, columns_ok |-> FALSE, rows |-> <<>>],
     [uploaded |-> TRUE, readable |-> TRUE, columns_ok |-> FALSE,
      rows |-> SubSeq(IngestRows, 1, 1)]}
    \cup {[uploaded |-> TRUE, readable |-> TRUE, columns_ok |-> TRUE, rows |-> rs] :
             rs \in {<<>>, SubSeq(IngestRows, 1, 1), SubSeq(IngestRows, 2, 2), IngestRows}}

InitIngest ==
    /\ pandas \in Builds
    /\ period_labels = InOrder(NumPeriods)
    /\ CustomSegments
    /\ custom_ranges_str = Parsed(<<0, 100, 300>>)
    /\ uploaded_files \in
           LET slots == Slots(NumPlatforms, period_labels)
           IN  {[i \in 1..Len(slots) |->
                    [platform |-> slots[i][1], period |-> slots[i][2], file |-> f[i]]] :
                f \in [1..Len(slots) -> IngestFiles]}
    /\ TypeInit

\* Rows of the workbook runs: a product of brand 1 inside and one outside the
\* segments, a product without a brand and a product of brand 2
SheetRows ==
    {Product(1, 1, 250, 1000, 100), Product(1, 3, 250, 1000, 400),
     Product(Missing, 4, 250, 1000, 100), Product(2, 2, 250, 1000, 100)}

InitSheets ==
    InitOf({InOrder(NumPeriods)}, {<<0, 100, 300>>}, NumPlatforms, SheetRows, MaxRecords)

\* Rows and boundary texts of the configuration runs: products at two prices;
\* text that is not numbers, a single number, and three boundaries
ConfigRows == {Product(1, 1, 250, 1000, p) : p \in {100, 200}}
ConfigTexts == {Unparsable, Parsed(<<100>>), Parsed(<<0, 100, 300>>)}

InitConfig == InitWith({InOrder(NumPeriods)}, ConfigTexts, 1, ConfigRows, MaxRecords)

\* main 969-985 with the names the operator typed for the platforms: the slots,
\* platform by platform, each under its name
NamedSlots(names, order) ==
    [i \in 1..(Len(names) * Len(order)) |->
        <<names[((i - 1) \div Len(order)) + 1], order[((i - 1) % Len(order)) + 1]>>]

\* Rows of the named runs: products of NumBrands brands with two revenues, all in
\* the first price segment
NameRows == {Product(b, b, rev, 1000, 100) : b \in 1..NumBrands, rev \in {250, 500}}

\* the names of two platforms: the defaults, and a second platform the operator
\* named '所有平台'
PlatformNames == {<<1, 2>>, <<1, AllPlatforms>>}

InitNames ==
    /\ pandas \in Builds
    /\ period_labels = InOrder(NumPeriods)
    /\ CustomSegments
    /\ custom_ranges_str = Parsed(<<0, 100, 300>>)
    /\ \E names \in PlatformNames :
           uploaded_files \in Uploads(NamedSlots(names, period_labels), NameRows, MaxRecords)
    /\ TypeInit

\* Rows, boundary texts and number inputs of the runs over both configuration modes:
\* products at two prices; text that is not numbers, a single number, a number twice
\* and three boundaries; two or three automatic segments with upper bounds left as
\* proposed or typed within [min_price, max_price]
SegmentRows == {Product(1, 1, 250, 1000, p) : p \in {600, 1200}}
SegmentTexts == {Unparsable, Parsed(<<600>>), Parsed(<<600, 600>>), Parsed(<<0, 600, 1200>>)}
SegmentCounts == {2, 3}
SegmentInputs(d) ==
    IF d = <<>> THEN {<<Proposed>>}
    ELSE UNION {[1..(n - 1) ->
                    {Proposed} \cup {Typed(v) : v \in {w \in {600, 900, 1200} :
                                                     min_price(d) <= w /\ w <= max_price(d)}}] :
                n \in SegmentCounts}

InitSegments ==
    /\ pandas \in Builds
    /\ period_labels = InOrder(NumPeriods)
    /\ uploaded_files \in Uploads(Slots(1, period_labels), SegmentRows, MaxRecords)
    /\ \/ /\ use_custom_segments = TRUE
          /\ segment_inputs = <<>>
          /\ custom_ranges_str \in SegmentTexts
       \/ /\ use_custom_segments = FALSE
          /\ segment_inputs \in
                 SegmentInputs(combine_platform_data(valid_files(uploaded_files)))
          /\ custom_ranges_str = Unparsable
    /\ TypeInit

InitSeg == InitOf({InOrder(NumPeriods)}, SegRanges, 1, SegRows, MaxRecords)

-----------------------------------------------------------------------------
(* The run of main *)

\* main 987-997: filter the empty slots and combine; nothing happens without a file,
\* and the run stops with an error when no file loads
CombinePlatformData ==
    LET valid == valid_files(uploaded_files)
        loaded == Len(valid) > 0 /\ Len(all_data(valid)) > 0
    IN  /\ pc = "uploaded"
        /\ df' = IF Len(valid) > 0 THEN combine_platform_data(valid) ELSE <<>>
        /\ pc' = IF Len(valid) = 0 THEN "idle"
                 ELSE IF Len(all_data(valid)) = 0 THEN "failed"
                 ELSE "combined"
        /\ price_ranges' = IF loaded
                           THEN chosen_price_ranges(use_custom_segments, custom_ranges_str,
                                                    segment_inputs,
                                                    combine_platform_data(valid))
                           ELSE <<>>
        /\ errors' = IF Len(valid) = 0 THEN <<>>
                     ELSE combine_errors(valid)
                              \o (IF loaded /\ use_custom_segments
                                  THEN price_ranges_errors(custom_ranges_str)
                                  ELSE <<>>)
        /\ UNCHANGED <<segment_dtype, use_custom_segments, segment_inputs,
                       pandas, period_labels, custom_ranges_str,
                       uploaded_files, period_stats, brand_stats, top_10_brands, segment_stats,
                       top_brands, top_products, sheets>>

\* main 1049
CalculatePeriodStats ==
    /\ pc = "combined"
    /\ IF calculate_period_stats_raises(df)
       THEN pc' = "error" /\ UNCHANGED period_stats
       ELSE pc' = "period_stats" /\ period_stats' = calculate_period_stats(df, pandas)
    /\ UNCHANGED <<segment_dtype, errors, use_custom_segments, segment_inputs,
                   custom_ranges_str, pandas, period_labels, price_ranges,
                   uploaded_files, df,
                   brand_stats, top_10_brands, segment_stats, top_brands, top_products,
                   sheets>>

\* main 1062
CalculateBrandShare ==
    /\ pc = "period_stats"
    /\ IF calculate_brand_share_raises(df)
       THEN pc' = "error" /\ UNCHANGED brand_stats
       ELSE pc' = "brand_share" /\ brand_stats' = calculate_brand_share(df)
    /\ UNCHANGED <<segment_dtype, errors, use_custom_segments, segment_inputs,
                   custom_ranges_str, pandas, period_labels, price_ranges,
                   uploaded_files, df,
                   period_stats, top_10_brands, segment_stats, top_brands, top_products,
                   sheets>>

\* main 1069-1081
SelectTop10Brands ==
    /\ pc = "brand_share"
    /\ pc' = "top_10"
    /\ top_10_brands' = top_10_selection(brand_stats)
    /\ UNCHANGED <<segment_dtype, errors, use_custom_segments, segment_inputs,
                   custom_ranges_str, pandas, period_labels, price_ranges,
                   uploaded_files, df,
                   period_stats, brand_stats, segment_stats, top_brands, top_products,
                   sheets>>

\* main 1089
AnalyzePriceSegments ==
    /\ pc = "top_10"
    /\ IF analyze_price_segments_raises(df, price_ranges, pandas)
       THEN pc' = "error" /\ UNCHANGED <<segment_stats, segment_dtype>>
       ELSE /\ pc' = "segment_stats"
            /\ segment_stats' = analyze_price_segments(df, price_ranges, pandas)
            /\ segment_dtype' = [segment_dtype EXCEPT !["segment_stats"] = "category"]
    /\ UNCHANGED <<errors, use_custom_segments, segment_inputs, custom_ranges_str, pandas, period_labels, price_ranges,
                   uploaded_files, df,
                   period_stats, brand_stats, top_10_brands, top_brands, top_products,
                   sheets>>

\* main 1100
GetTopBrandsBySegment ==
    /\ pc = "segment_stats"
    /\ IF get_top_brands_by_segment_raises(df, price_ranges, pandas)
       THEN pc' = "error" /\ UNCHANGED <<top_brands, segment_dtype>>
       ELSE /\ pc' = "top_brands"
            /\ top_brands' = get_top_brands_by_segment(df, price_ranges, pandas, TopN)
            /\ segment_dtype' = [segment_dtype EXCEPT !["top_brands"] =
                    cut_dtype(get_top_brands_by_segment(df, price_ranges, pandas, TopN))]
    /\ UNCHANGED <<errors, use_custom_segments, segment_inputs, custom_ranges_str, pandas, period_labels, price_ranges,
                   uploaded_files, df,
                   period_stats, brand_stats, top_10_brands, segment_stats, top_products,
                   sheets>>

\* main 1105
GetTopProductsBySegment ==
    /\ pc = "top_brands"
    /\ IF get_top_products_by_segment_raises(df, price_ranges, pandas)
       THEN pc' = "error" /\ UNCHANGED <<top_products, segment_dtype>>
       ELSE /\ pc' = "top_products"
            /\ top_products' = get_top_products_by_segment(df, price_ranges, pandas, TopN)
            /\ segment_dtype' = [segment_dtype EXCEPT !["top_products"] =
                    cut_dtype(get_top_products_by_segment(df, price_ranges, pandas, TopN))]
    /\ UNCHANGED <<errors, use_custom_segments, segment_inputs, custom_ranges_str, pandas, period_labels, price_ranges,
                   uploaded_files, df,
                   period_stats, brand_stats, top_10_brands, segment_stats, top_brands,
                   sheets>>

\* main 1111-1113
FormatExcelOutput ==
    /\ pc = "top_products"
    /\ pc' = "exported"
    /\ sheets' = format_excel_output(period_stats, top_10_brands, segment_stats,
                                     top_brands, top_products)
    /\ segment_dtype' = astype_str(segment_dtype)
    /\ UNCHANGED <<errors, use_custom_segments, segment_inputs, custom_ranges_str, pandas, period_labels, price_ranges,
                   uploaded_files, df,
                   period_stats, brand_stats, top_10_brands, segment_stats, top_brands,
                   top_products>>

Next ==
    \/ CombinePlatformData
    \/ CalculatePeriodStats
    \/ CalculateBrandShare
    \/ SelectTop10Brands
    \/ AnalyzePriceSegments
    \/ GetTopBrandsBySegment
    \/ GetTopProductsBySegment
    \/ FormatExcelOutput

Spec == Init /\ [][Next]_vars

\* the runs over three periods
SpecDelta == InitDelta /\ [][Next]_vars

\* the runs that end in comparison sheets over three periods
SpecCompare == InitCompare /\ [][Next]_vars

\* the runs with more brands than the top-10 selection keeps
SpecWide == InitWide /\ [][Next]_vars

\* the runs over configured period orders
SpecOrder == InitOrder /\ [][Next]_vars

\* the runs over files that load and files that do not
SpecIngest == InitIngest /\ [][Next]_vars

\* the runs over the sheets of the workbook
SpecSheets == InitSheets /\ [][Next]_vars

\* the runs over texts of the custom boundaries
SpecConfig == InitConfig /\ [][Next]_vars

\* the runs over prices and boundary lists
SpecSeg == InitSeg /\ [][Next]_vars

\* the runs over both modes of the price segment configuration
SpecSegments == InitSegments /\ [][Next]_vars

\* the runs over the names of the platforms
SpecNames == InitNames /\ [][Next]_vars

-----------------------------------------------------------------------------
(* Properties of the aggregation tables *)

\* x + y on floats
FAdd(x, y) ==
    IF x.k = "nan" \/ y.k = "nan" THEN NaN
    ELSE IF x.k = "inf" \/ y.k = "inf" THEN Inf
    ELSE Rat(x.n * y.d + y.n * x.d, x.d * y.d)

RECURSIVE FSum(_)
FSum(s) == IF s = <<>> THEN Num(0) ELSE FAdd(Head(s), FSum(Tail(s)))

\* the per-platform rows of a table for one period
PlatformRows(t, period) ==
    Rows(t, LAMBDA q : q.period = period /\ q.platform # AllPlatforms)

\* the per-platform rows of a brand table for one period and brand
PlatformBrandRows(t, period, brand) ==
    Rows(t, LAMBDA q : q.period = period /\ q.brand = brand /\ q.platform # AllPlatforms)

BrandRollupIsSum ==
    \A r \in Range(brand_stats) : r.platform = AllPlatforms =>
        /\ r.rev = SumOf(PlatformBrandRows(brand_stats, r.period, r.brand), Revenue)
        /\ r.vol = SumOf(PlatformBrandRows(brand_stats, r.period, r.brand), Volume)

\* C1 as claimed: in the period table and in the brand table the '所有平台' row of a
\* period (and brand) has revenue and volume equal to the sums over the per-platform
\* rows of the same period (and brand).
C1_RollupEqualsPlatformSum ==
    /\ \A r \in Range(period_stats) : r.platform = AllPlatforms =>
           /\ r.rev = SumOf(PlatformRows(period_stats, r.period), Revenue)
           /\ r.vol = SumOf(PlatformRows(period_stats, r.period), Volume)
    /\ BrandRollupIsSum

\* every record of the period has an amount f of at most two decimals
TwoDecimals(period, f(_)) ==
    \A x \in Range(df) : x.period = period => f(x) % 10 = 0

\* C1 amended: the brand table's '所有平台' rows equal the sums of the per-platform
\* rows; the period table holds every sum rounded to two decimals, and its '所有平台'
\* row equals the sum of the per-platform rows whenever every record of the period
\* has a revenue (volume) of at most two decimals.
C1_RollupEqualsPlatformSumOfCents ==
    /\ \A r \in Range(period_stats) : r.platform = AllPlatforms =>
           /\ TwoDecimals(r.period, Revenue) =>
                  r.rev = SumOf(PlatformRows(period_stats, r.period), Revenue)
           /\ TwoDecimals(r.period, Volume) =>
                  r.vol = SumOf(PlatformRows(period_stats, r.period), Volume)
    /\ BrandRollupIsSum

\* both tables are computed and a period of two-decimal amounts has revenue on two
\* platforms, for one brand
C1_Witness ==
    /\ period_stats # <<>>
    /\ \E r \in Range(brand_stats) :
        /\ r.platform = AllPlatforms
        /\ TwoDecimals(r.period, Revenue)
        /\ TwoDecimals(r.period, Volume)
        /\ Len(PlatformBrandRows(brand_stats, r.period, r.brand)) >= 2
        /\ \A q \in Range(PlatformBrandRows(brand_stats, r.period, r.brand)) : q.rev > 0

\* the rows of one (period, platform) stratum of the brand table
BrandStratum(period, platform) ==
    Rows(brand_stats, LAMBDA q : q.period = period /\ q.platform = platform)

ShareSum(t) == FSum([i \in 1..Len(t) |-> t[i].rev_share])

AllBranded == \A x \in Range(df) : HasBrand(x)

\* C2 as claimed: when every record has a brand, the revenue shares of every
\* (period, platform) stratum of the brand table, '所有平台' included, sum to 100.
C2_SharesSumTo100 ==
    AllBranded =>
        \A r \in Range(brand_stats) : ShareSum(BrandStratum(r.period, r.platform)) = Num(100)

\* C2 amended: when every record has a brand, the revenue shares of every
\* (period, platform) stratum whose total revenue is not zero sum to 100.
C2_SharesOfNonZeroTotalSumTo100 ==
    AllBranded =>
        \A r \in Range(brand_stats) :
            SumOf(BrandStratum(r.period, r.platform), Revenue) # 0 =>
                ShareSum(BrandStratum(r.period, r.platform)) = Num(100)

\* a real platform's stratum of two brands, both with revenue, every record branded
C2_Witness ==
    /\ AllBranded
    /\ \E r \in Range(brand_stats) :
        /\ r.platform # AllPlatforms
        /\ Len(BrandStratum(r.period, r.platform)) >= 2
        /\ \A q \in Range(BrandStratum(r.period, r.platform)) : q.rev > 0

-----------------------------------------------------------------------------
(* Properties of the price segments and of the top-N tables *)

\* the segment the specification assigns: b[i] <= p < b[i+1], p = b[k] in the last
\* segment, none below b[0] or above b[k]
HalfOpenSegment(p, b) ==
    IF \E i \in 1..(Len(b) - 1) : b[i] <= p /\ p < b[i + 1]
    THEN CHOOSE i \in 1..(Len(b) - 1) : b[i] <= p /\ p < b[i + 1]
    ELSE IF Len(b) >= 2 /\ p = b[Len(b)] THEN Len(b) - 1
    ELSE Missing

\* C3 as claimed: a record of price p belongs to the segment b[i]-b[i+1] with
\* b[i] <= p < b[i+1] (p = b[k] to the last one, none outside): every segment row of
\* analyze_price_segments sums the records so assigned, and every record so assigned
\* has its segment row.  With boundaries 0,100,300: 100 and 300 in 100-300, 0 in
\* 0-100, 400 in none.
C3_SegmentIsHalfOpen ==
    segment_stats # <<>> =>
        /\ \A row \in Range(segment_stats) :
               row.platform # AllPlatforms =>
                   row.rev = SumOf(Rows(df, LAMBDA r :
                                 /\ r.period = row.period
                                 /\ r.platform = row.platform
                                 /\ HalfOpenSegment(r.price, price_ranges) = row.segment),
                                 Revenue)
        /\ \A r \in Range(df) :
               HalfOpenSegment(r.price, price_ranges) # Missing =>
                   \E row \in Range(segment_stats) :
                       /\ row.period = r.period
                       /\ row.platform = r.platform
                       /\ row.segment = HalfOpenSegment(r.price, price_ranges)

\* the records of one stratum; platform '所有平台' takes every platform
StratumRecords(period, platform, segment) ==
    Rows(df, LAMBDA r : /\ r.period = period
                        /\ (platform = AllPlatforms \/ r.platform = platform)
                        /\ cut(r.price, price_ranges) = segment)

StratumKeys ==
    {<<p, pl, sg>> : p \in Periods(df), pl \in Platforms(df) \cup {AllPlatforms},
                     sg \in Segments(price_ranges)}

Min(a, b) == IF a < b THEN a ELSE b

Descending(t) == \A i \in 1..(Len(t) - 1) : t[i].rev >= t[i + 1].rev

\* the rows of a top-N table for one stratum
TopRows(t, key) ==
    Rows(t, LAMBDA r : r.period = key[1] /\ r.platform = key[2] /\ r.segment = key[3])

\* C5 as claimed: for every (period, platform, segment) stratum and every
\* (period, segment) stratum of '所有平台', the top brands table and the top
\* products table hold exactly min(n, candidates) rows, the candidates being the
\* brands (products) with records in the stratum, in descending revenue order and
\* none smaller than a candidate left out.
C5_TopNRowsOfStratum ==
    /\ top_brands # <<>> =>
        \A key \in StratumKeys :
            LET cand == {r.brand : r \in {x \in Range(StratumRecords(key[1], key[2], key[3])) :
                                             HasBrand(x)}}
                rows == TopRows(top_brands, key)
                total(b) == SumOf(Rows(StratumRecords(key[1], key[2], key[3]),
                                       LAMBDA r : r.brand = b), Revenue)
            IN  /\ Len(rows) = Min(TopN, Cardinality(cand))
                /\ Descending(rows)
                /\ \A r \in Range(rows) : r.brand \in cand
                /\ \A r \in Range(rows) : \A b \in cand \ {x.brand : x \in Range(rows)} :
                       r.rev >= total(b)
    /\ top_products # <<>> =>
        \A key \in StratumKeys :
            LET cand == {<<r.name, r.link>> : r \in Range(StratumRecords(key[1], key[2], key[3]))}
                rows == TopRows(top_products, key)
            IN  /\ Len(rows) = Min(TopN, Cardinality(cand))
                /\ Descending(rows)
                /\ \A r \in Range(rows) : <<r.name, r.link>> \in cand

\* C10 as claimed: in a stratum whose total is 0 every share is 0 (never NaN or
\* infinite) in the tables of calculate_brand_share, analyze_price_segments and
\* get_top_brands_by_segment, and no error is raised.
C10_ZeroTotalShareIsZero ==
    /\ \A r \in Range(brand_stats) :
        LET all == Rows(df, LAMBDA x : x.period = r.period
                                       /\ (r.platform = AllPlatforms \/ x.platform = r.platform))
        IN  /\ SumOf(all, Revenue) = 0 => r.rev_share = Num(0)
            /\ SumOf(all, Volume) = 0 => r.vol_share = Num(0)
    /\ \A r \in Range(segment_stats) :
        LET all == Rows(df, LAMBDA x : x.period = r.period
                                       /\ (r.platform = AllPlatforms \/ x.platform = r.platform))
        IN  /\ SumOf(all, Revenue) = 0 => r.rev_share = Num(0)
            /\ SumOf(all, Volume) = 0 => r.vol_share = Num(0)
    /\ \A r \in Range(top_brands) :
        LET all == StratumRecords(r.period, r.platform, r.segment)
        IN  /\ SumOf(all, Revenue) = 0 => r.rev_share = Num(0)
            /\ SumOf(all, Volume) = 0 => r.vol_share = Num(0)
    /\ pc # "error"

-----------------------------------------------------------------------------
(* Properties of the period deltas *)

\* the rows of t that precede row r in the column of the same key
Preceding(t, r, SameKey(_, _)) ==
    {q \in Range(t) : SameKey(q, r) /\ q.period < r.period}

\* the row of the nearest earlier period among a non-empty set of rows
Latest(rows) == CHOOSE q \in rows : \A x \in rows : x.period <= q.period

SamePlatform(q, r) == q.platform = r.platform

\* d = (cur / prev - 1) * 100 in floating point: exact for prev # 0, infinite for
\* cur / 0 and NaN for 0 / 0
IsDelta(d, prev, cur) ==
    IF prev # 0 THEN d.k = "num" /\ d.n * prev = (cur - prev) * 100 * d.d
    ELSE IF cur = 0 THEN d = NaN
    ELSE d = Inf

\* C4: in the table of calculate_period_stats, for every platform ('所有平台'
\* included), the three delta columns of the platform's first period are undefined
\* and those of every later period are (value / previous value - 1) * 100, the
\* previous value being that of the platform's nearest earlier period.
C4_DeltaIsPctOfPrevious ==
    \A r \in Range(period_stats) :
        LET before == Preceding(period_stats, r, SamePlatform)
        IN  IF before = {}
            THEN r.d_rev = NaN /\ r.d_vol = NaN /\ r.d_price = NaN
            ELSE LET q == Latest(before)
                 IN  /\ IsDelta(r.d_rev, q.rev, r.rev)
                     /\ IsDelta(r.d_vol, q.vol, r.vol)
                     /\ IsDelta(r.d_price, q.price, r.price)

\* a platform with revenues 100, 150, 90 over three periods has the deltas
\* undefined, +50, -40
C4_Witness ==
    \E a, b, c \in Range(period_stats) :
        /\ a.platform = b.platform /\ b.platform = c.platform
        /\ a.period < b.period /\ b.period < c.period
        /\ a.rev = 100 /\ b.rev = 150 /\ c.rev = 90
        /\ a.d_rev = NaN /\ b.d_rev = Num(50) /\ c.d_rev = Num(-40)

SameSegmentKey(q, r) == q.platform = r.platform /\ q.segment = r.segment

\* C9 as claimed: a delta of calculate_period_stats or a share delta of
\* analyze_price_segments is undefined (NaN) whenever the preceding value of the
\* same key is zero or there is none, and no delta is infinite.
C9_DeltaUndefinedAfterZero ==
    /\ \A r \in Range(period_stats) :
        LET before == Preceding(period_stats, r, SamePlatform)
        IN  /\ r.d_rev # Inf /\ r.d_vol # Inf /\ r.d_price # Inf
            /\ before = {} => r.d_rev = NaN /\ r.d_vol = NaN /\ r.d_price = NaN
            /\ before # {} =>
                   /\ Latest(before).rev = 0 => r.d_rev = NaN
                   /\ Latest(before).vol = 0 => r.d_vol = NaN
                   /\ Latest(before).price = 0 => r.d_price = NaN
    /\ \A r \in Range(segment_stats) :
        LET before == Preceding(segment_stats, r, SameSegmentKey)
        IN  /\ r.d_rev_share # Inf /\ r.d_vol_share # Inf
            /\ before = {} => r.d_rev_share = NaN /\ r.d_vol_share = NaN
            /\ before # {} =>
                   /\ Latest(before).rev_share = Num(0) => r.d_rev_share = NaN
                   /\ Latest(before).vol_share = Num(0) => r.d_vol_share = NaN

-----------------------------------------------------------------------------
(* Properties of the comparison sheets *)

\* the periods in which the table t has a row of the key
PeriodsOf(t, IsKey(_)) == {r.period : r \in {x \in Range(t) : IsKey(x)}}

\* C6: a row of a comparison sheet (period, brand, segment, segment x brand,
\* segment x product) is emitted only for a key with rows in more than one period
\* of the long-format table the sheet is built from; a key with rows in one period
\* only is in no comparison sheet.
C6_ComparisonKeysSpanPeriods ==
    pc = "exported" =>
        /\ \A row \in Range(sheets.table.period_comparison) :
               Cardinality(PeriodsOf(period_stats,
                   LAMBDA r : r.platform = row.platform)) > 1
        /\ \A row \in Range(sheets.table.brand_comparison) :
               Cardinality(PeriodsOf(top_10_brands,
                   LAMBDA r : r.platform = row.platform /\ r.brand = row.brand)) > 1
        /\ \A row \in Range(sheets.table.segment_comparison) :
               Cardinality(PeriodsOf(segment_stats,
                   LAMBDA r : r.platform = row.platform /\ r.segment = row.segment)) > 1
        /\ \A row \in Range(sheets.table.top_brands_comparison) :
               Cardinality(PeriodsOf(top_brands,
                   LAMBDA r : /\ r.platform = row.platform /\ r.segment = row.segment
                              /\ r.brand = row.brand)) > 1
        /\ \A row \in Range(sheets.table.top_products_comparison) :
               Cardinality(PeriodsOf(top_products,
                   LAMBDA r : /\ r.platform = row.platform /\ r.segment = row.segment
                              /\ r.name = row.name)) > 1

\* a workbook whose brand and product comparison sheets have rows while a brand and
\* a product of one period only are in the long-format tables
C6_Witness ==
    /\ pc = "exported"
    /\ sheets.table.period_comparison # <<>>
    /\ sheets.table.brand_comparison # <<>>
    /\ sheets.table.top_products_comparison # <<>>
    /\ \E x \in Range(top_10_brands) :
           Cardinality(PeriodsOf(top_10_brands,
               LAMBDA r : r.platform = x.platform /\ r.brand = x.brand)) = 1
    /\ \E x \in Range(top_products) :
           Cardinality(PeriodsOf(top_products,
               LAMBDA r : /\ r.platform = x.platform /\ r.segment = x.segment
                          /\ r.name = x.name)) = 1

\* c = (curr / prev - 1) * 100 for cells prev # 0 and curr that hold numbers
IsPctChange(c, prev, curr) ==
    c.k = "num" /\ c.n * prev.n * curr.d = (curr.n * prev.d - prev.n * curr.d) * 100 * c.d

\* the change columns of one value column of a product row
ProductChangesOk(value, change) ==
    /\ \A pair \in DOMAIN change :
           /\ pair[1] \in DOMAIN value /\ pair[2] \in DOMAIN value
           /\ value[pair[1]].k = "num" /\ value[pair[2]].k = "num"
           /\ value[pair[2]] # Num(0)
           /\ IsPctChange(change[pair], value[pair[2]], value[pair[1]])
    /\ \A p \in DOMAIN value, c \in DOMAIN value :
           (value[p].k = "none" \/ value[p] = Num(0)) => <<c, p>> \notin DOMAIN change

\* C7: in the period comparison sheet and the product comparison sheet, a change
\* column of a row for the pair (curr vs prev) holds (value[curr] / value[prev] - 1)
\* * 100, and holds no value when the previous value is zero or missing.
C7_ChangeIsPctOfPrevious ==
    pc = "exported" =>
        /\ \A row \in Range(sheets.table.period_comparison) :
               \A pair \in DOMAIN row.change :
                   LET curr == row.value[pair[1]]
                       prev == row.value[pair[2]]
                   IN  IF prev.k = "none" \/ prev = Num(0)
                       THEN row.change[pair] = NoneCell
                       ELSE curr.k = "num" =>
                                IsPctChange(row.change[pair], prev, curr)
        /\ \A row \in Range(sheets.table.top_products_comparison) :
               /\ ProductChangesOk(row.cols.rev, row.cols.d_rev)
               /\ ProductChangesOk(row.cols.vol, row.cols.d_vol)
               /\ ProductChangesOk(row.cols.price, row.cols.d_price)

\* revenue 0, then 200, then 250: no value for the second period against the first
\* and 25 for the third against the second, in both sheets
C7_Witness ==
    /\ pc = "exported"
    /\ \E row \in Range(sheets.table.period_comparison) :
           /\ row.metric = "rev"
           /\ row.value = (1 :> Num(0)) @@ (2 :> Num(200)) @@ (3 :> Num(250))
           /\ row.change[<<2, 1>>] = NoneCell
           /\ row.change[<<3, 2>>] = Num(25)
    /\ \E row \in Range(sheets.table.top_products_comparison) :
           /\ row.cols.rev = (1 :> Num(0)) @@ (2 :> Num(200)) @@ (3 :> Num(250))
           /\ DOMAIN row.cols.d_rev = {<<3, 2>>}
           /\ row.cols.d_rev[<<3, 2>>] = Num(25)

-----------------------------------------------------------------------------
(* The brand comparison sheet, end to end *)

\* the records of a brand in a period on a platform ('所有平台': on any)
BrandRecords(period, platform, brand) ==
    Rows(df, LAMBDA r : /\ r.period = period /\ r.brand = brand
                        /\ (platform = AllPlatforms \/ r.platform = platform))

BrandsOf(period, platform) ==
    {b \in Brands(df) : BrandRecords(period, platform, b) # <<>>}

BrandRevenue(period, platform, brand) == SumOf(BrandRecords(period, platform, brand), Revenue)

InBothPeriods(platform) ==
    {b \in Brands(df) : \A p \in Periods(df) : b \in BrandsOf(p, platform)}

\* the brands of the rows of the brand comparison sheet for a platform
SheetBrands(platform) ==
    {row.brand : row \in {x \in Range(sheets.table.brand_comparison) : x.platform = platform}}

\* C8 as claimed: with two periods, the brand comparison sheet holds, for each
\* platform, a row for exactly the brands with records on the platform in both
\* periods.
C8_SheetHoldsBrandsOfBothPeriods ==
    (pc = "exported" /\ Cardinality(Periods(df)) = 2) =>
        \A pl \in Platforms(df) : SheetBrands(pl) = InBothPeriods(pl)

\* the brands with a strictly greater (greater or equal) revenue in the stratum
Above(period, platform, brand) ==
    {c \in BrandsOf(period, platform) :
        BrandRevenue(period, platform, c) > BrandRevenue(period, platform, brand)}
AtLeast(period, platform, brand) ==
    {c \in BrandsOf(period, platform) \ {brand} :
        BrandRevenue(period, platform, c) >= BrandRevenue(period, platform, brand)}

\* C8: with two periods, the brand comparison sheet holds, for each platform
\* ('所有平台' included), a row for exactly the brands that are among the ten
\* brands of highest revenue of the platform in both periods: a brand of the sheet
\* has records in both periods with fewer than ten brands above it in each, and a
\* brand with fewer than ten brands at or above it in both periods is in the sheet.
C8_SheetHoldsTop10BrandsOfBothPeriods ==
    (pc = "exported" /\ Cardinality(Periods(df)) = 2) =>
        \A pl \in Platforms(df) \cup {AllPlatforms} :
            /\ \A b \in SheetBrands(pl) :
                   /\ b \in InBothPeriods(pl)
                   /\ \A p \in Periods(df) : Cardinality(Above(p, pl, b)) < Top10
            /\ \A b \in InBothPeriods(pl) :
                   (\A p \in Periods(df) : Cardinality(AtLeast(p, pl, b)) < Top10)
                       => b \in SheetBrands(pl)

\* a workbook of two periods with more than ten brands in one of them, where a
\* brand with records in both periods has no row in the sheet and others have
C8_Witness ==
    /\ pc = "exported"
    /\ Cardinality(Periods(df)) = 2
    /\ \E pl \in Platforms(df) :
           /\ \E p \in Periods(df) : Cardinality(BrandsOf(p, pl)) > Top10
           /\ SheetBrands(pl) # {}
           /\ InBothPeriods(pl) \ SheetBrands(pl) # {}

-----------------------------------------------------------------------------
(* The denominators of the segment shares *)

\* the records of a (period, platform) stratum that have a segment
SegmentedRecords(period, platform) ==
    Rows(df, LAMBDA r : /\ r.period = period
                        /\ (platform = AllPlatforms \/ r.platform = platform)
                        /\ HasSegment(r, price_ranges))

\* the rows of the segment table for one (period, platform) stratum
SegmentStratum(period, platform) ==
    Rows(segment_stats, LAMBDA q : q.period = period /\ q.platform = platform)

\* C11 as claimed: in the table of analyze_price_segments a record without a segment
\* adds to no segment's revenue or volume and to no share denominator: a row holds
\* the sums of the records of its segment, its shares are taken of the sums over the
\* segmented records of its (period, platform) stratum, and the revenue shares of a
\* stratum with a segmented record sum to 100.
C11_SegmentlessOutOfDenominator ==
    \A row \in Range(segment_stats) :
        LET seg == SegmentedRecords(row.period, row.platform)
            own == StratumRecords(row.period, row.platform, row.segment)
        IN  /\ row.rev = SumOf(own, Revenue)
            /\ row.vol = SumOf(own, Volume)
            /\ (seg # <<>> /\ SumOf(seg, Revenue) # 0 /\ SumOf(seg, Volume) # 0) =>
                   /\ row.rev_share = SharePct(row.rev, SumOf(seg, Revenue))
                   /\ row.vol_share = SharePct(row.vol, SumOf(seg, Volume))
                   /\ ShareSum(SegmentStratum(row.period, row.platform)) = Num(100)

-----------------------------------------------------------------------------
(* The order of the periods *)

\* the place of a period label in the configured order
Position(period) == CHOOSE i \in 1..Len(period_labels) : period_labels[i] = period

\* the rows of t of the same key as r in an earlier configured period
ConfiguredBefore(t, r, SameKey(_, _)) ==
    {q \in Range(t) : SameKey(q, r) /\ Position(q.period) < Position(r.period)}

\* the row of the latest configured period among a non-empty set of rows
ConfiguredLatest(rows) ==
    CHOOSE q \in rows : \A x \in rows : Position(x.period) <= Position(q.period)

\* C12 as claimed: the predecessor of every delta is the previous period in the
\* configured order of the period labels, not in their sort order: in the period
\* table the deltas of a platform's first configured period are undefined and those
\* of a later one are taken against the nearest earlier configured period, likewise
\* the share deltas of the segment table, and the change columns of the period
\* comparison sheet compare a period with an earlier configured one.
C12_DeltaFollowsConfiguredOrder ==
    /\ \A r \in Range(period_stats) :
        LET before == ConfiguredBefore(period_stats, r, SamePlatform)
        IN  IF before = {} THEN r.d_rev = NaN
            ELSE IsDelta(r.d_rev, ConfiguredLatest(before).rev, r.rev)
    /\ \A r \in Range(segment_stats) :
        LET before == ConfiguredBefore(segment_stats, r, SameSegmentKey)
        IN  before = {} => r.d_rev_share = NaN
    /\ pc = "exported" =>
        \A row \in Range(sheets.table.period_comparison) :
            \A pair \in DOMAIN row.change : Position(pair[2]) < Position(pair[1])

-----------------------------------------------------------------------------
(* Ingestion *)

\* the upload slots with a file, those whose file is a table with the required
\* columns, and the others
Uploaded == {i \in DOMAIN uploaded_files : uploaded_files[i].file.uploaded}
ValidTables == {i \in Uploaded : /\ uploaded_files[i].file.readable
                                 /\ uploaded_files[i].file.columns_ok}
RejectedTables == Uploaded \ ValidTables

\* the records of the unified record set tagged with the platform and period of a slot
RecordsOf(i) ==
    Rows(df, LAMBDA r : /\ r.platform = uploaded_files[i].platform
                        /\ r.period = uploaded_files[i].period)

\* a record without its tags
Untagged(r) == Product(r.brand, r.name, r.rev, r.vol, r.price)

Ingested == pc \notin {"uploaded", "idle"}

\* C13: once the uploads are combined, every table without a required column or
\* that fails to load has one report and no record in the unified record set, every
\* valid table has its records there, in its order, tagged with its platform and
\* period, the record set holds nothing else, and the combination itself ends in
\* the record set or in the total failure, never in an exception.
C13_RejectedTablesAreSkipped ==
    Ingested =>
        /\ \A i \in RejectedTables : RecordsOf(i) = <<>>
        /\ \A i \in ValidTables :
               [k \in 1..Len(RecordsOf(i)) |-> Untagged(RecordsOf(i)[k])]
                   = uploaded_files[i].file.rows
        /\ Len(df) = SumSeq([i \in DOMAIN uploaded_files |->
                                IF i \in ValidTables THEN Len(uploaded_files[i].file.rows)
                                ELSE 0])
        /\ Cardinality({k \in DOMAIN errors :
                           errors[k] \in {"missing_columns", "load_failed"}})
               = Cardinality(RejectedTables)
        /\ (pc = "failed") = (ValidTables = {})

\* a table without a required column, a table that does not load and a valid table
\* with records were uploaded and combined
C13_Witness ==
    /\ pc = "combined"
    /\ \E i, j \in RejectedTables :
           /\ ~uploaded_files[i].file.readable
           /\ uploaded_files[j].file.readable /\ uploaded_files[j].file.rows # <<>>
    /\ \E i \in ValidTables : Len(RecordsOf(i)) = 2
    /\ Len(errors) = Cardinality(RejectedTables)

StageTables ==
    <<period_stats, brand_stats, top_10_brands, segment_stats, top_brands, top_products>>

\* C14: when files were uploaded and none of them is a table with the required
\* columns, the run ends with the report of the total failure, no aggregation table
\* is computed and no workbook is written; and no workbook is ever written from an
\* empty record set.
C14_NoRecordsNoReport ==
    /\ (pc # "uploaded" /\ Uploaded # {} /\ ValidTables = {}) =>
           /\ pc = "failed"
           /\ errors # <<>> /\ errors[Len(errors)] = "all_failed"
           /\ df = <<>>
           /\ \A i \in DOMAIN StageTables : StageTables[i] = <<>>
           /\ sheets = NoWorkbook
    /\ df = <<>> => sheets = NoWorkbook

\* every uploaded file was rejected, for both reasons
C14_Witness ==
    /\ pc = "failed"
    /\ \E i, j \in RejectedTables :
           uploaded_files[i].file.readable /\ ~uploaded_files[j].file.readable
    /\ errors = <<"missing_columns", "load_failed", "all_failed">>

-----------------------------------------------------------------------------
(* Tables without rows *)

\* C15 as claimed: on a record table with the required columns and no rows, each of
\* calculate_period_stats, calculate_brand_share, analyze_price_segments,
\* get_top_brands_by_segment and get_top_products_by_segment returns an empty table
\* and raises nothing, so that a run on such a table does not end in an exception.
C15_EmptyTableGivesEmptyResult ==
    (pc \notin {"uploaded", "idle", "failed"} /\ df = <<>>) =>
        /\ ~calculate_period_stats_raises(df)
        /\ ~calculate_brand_share_raises(df)
        /\ ~analyze_price_segments_raises(df, <<0, 100, 300>>, pandas)
        /\ ~get_top_brands_by_segment_raises(df, <<0, 100, 300>>, pandas)
        /\ ~get_top_products_by_segment_raises(df, <<0, 100, 300>>, pandas)
        /\ get_top_brands_by_segment(df, <<0, 100, 300>>, pandas, TopN) = <<>>
        /\ get_top_products_by_segment(df, <<0, 100, 300>>, pandas, TopN) = <<>>
        /\ pc # "error"

-----------------------------------------------------------------------------
(* The sheets of the workbook *)

\* a table of one row and one column
SingleCell(t) == Len(t) = 1 /\ Cardinality(DOMAIN t[1]) = 1

\* C16: the workbook written by format_excel_output always holds the five
\* long-format sheets; the sheet of an empty top-N table is written with a
\* single-column placeholder table, that of a non-empty one with its rows.
C16_LongSheetsAlwaysWritten ==
    pc = "exported" =>
        /\ LongSheets \subseteq sheets.written
        /\ Len(sheets.table.period_stats) = Len(period_stats)
        /\ Len(sheets.table.brand_share) = Len(top_10_brands)
        /\ Len(sheets.table.segment_stats) = Len(segment_stats)
        /\ IF top_brands = <<>> THEN SingleCell(sheets.table.top_brands)
           ELSE Len(sheets.table.top_brands) = Len(top_brands)
        /\ IF top_products = <<>> THEN SingleCell(sheets.table.top_products)
           ELSE Len(sheets.table.top_products) = Len(top_products)

\* a workbook written from an empty top brands table
C16_Witness ==
    /\ pc = "exported"
    /\ top_brands = <<>>
    /\ "top_brands" \in sheets.written
    /\ SingleCell(sheets.table.top_brands)

ComparisonSheets ==
    {"period_comparison", "brand_comparison", "segment_comparison",
     "top_brands_comparison", "top_products_comparison"}

\* C17 as claimed: when the record set holds more than one period the workbook
\* holds the five comparison sheets in addition to the five long-format sheets.
C17_ComparisonSheetPerGrain ==
    (pc = "exported" /\ Cardinality(Periods(df)) > 1) =>
        LongSheets \cup ComparisonSheets \subseteq sheets.written

\* some key of the table has rows in more than one period
SpansPeriods(t, SameKey(_, _)) ==
    \E x \in Range(t) : \E y \in Range(t) : SameKey(x, y) /\ x.period # y.period

SameBrandKey(x, y) == x.platform = y.platform /\ x.brand = y.brand
SameSegmentBrandKey(x, y) == SameSegmentKey(x, y) /\ x.brand = y.brand
SameSegmentProductKey(x, y) == SameSegmentKey(x, y) /\ x.name = y.name

\* C17: the workbook holds the five long-format sheets and, of the five comparison
\* sheets, exactly those of a grain some key of which has rows in more than one
\* period of the long-format table of the grain.
C17_ComparisonSheetPerSpanningGrain ==
    pc = "exported" =>
        /\ LongSheets \subseteq sheets.written
        /\ sheets.written \subseteq LongSheets \cup ComparisonSheets
        /\ "period_comparison" \in sheets.written
               <=> SpansPeriods(period_stats, SamePlatform)
        /\ "brand_comparison" \in sheets.written
               <=> SpansPeriods(top_10_brands, SameBrandKey)
        /\ "segment_comparison" \in sheets.written
               <=> SpansPeriods(segment_stats, SameSegmentKey)
        /\ "top_brands_comparison" \in sheets.written
               <=> SpansPeriods(top_brands, SameSegmentBrandKey)
        /\ "top_products_comparison" \in sheets.written
               <=> SpansPeriods(top_products, SameSegmentProductKey)

\* a workbook of two periods with the period comparison sheet and without the brand
\* comparison sheet
C17_Witness ==
    /\ pc = "exported"
    /\ Cardinality(Periods(df)) > 1
    /\ "period_comparison" \in sheets.written
    /\ "brand_comparison" \notin sheets.written

-----------------------------------------------------------------------------
(* The custom price boundaries *)

\* the text of the boundaries is not numbers, or holds fewer than two
BadBoundaries == ~custom_ranges_str.parses \/ Len(custom_ranges_str.values) < 2

\* C18 as claimed: when the text of the custom boundaries does not parse or holds
\* fewer than two values, the run reports it, computes none of the segment tables
\* (segment statistics, top brands, top products) and is not aborted.
C18_BadBoundariesSkipSegments ==
    (BadBoundaries /\ pc \notin {"uploaded", "idle", "failed"}) =>
        /\ \E k \in DOMAIN errors : errors[k] \in {"bad_boundaries", "too_few_boundaries"}
        /\ segment_stats = <<>>
        /\ top_brands = <<>>
        /\ top_products = <<>>
        /\ pc # "error"

-----------------------------------------------------------------------------
(* Gaps and independence of the keys *)

\* the periods of a row of a comparison sheet that hold a value, and the last of
\* them before a period
WithValue(value) == {p \in DOMAIN value : value[p].k = "num"}
LastBefore(value, p) ==
    CHOOSE q \in WithValue(value) : q < p /\ \A x \in WithValue(value) : x < p => x <= q

\* the change of period p of a row is taken against the last earlier period in
\* which the row has a value
ChainsAcrossGaps(value, change) ==
    \A p \in WithValue(value) :
        (\E q \in WithValue(value) : q < p) =>
            LET q == LastBefore(value, p)
            IN  value[q] # Num(0) =>
                    \E pair \in DOMAIN change :
                        /\ pair[1] = p
                        /\ IsPctChange(change[pair], value[q], value[p])

\* C19 as claimed: a delta is computed against the previous period in which the key
\* has data, across periods without data: in the period table, and in the change
\* columns of the period comparison sheet and of the product comparison sheet.
C19_DeltasChainAcrossGaps ==
    /\ \A r \in Range(period_stats) :
           Preceding(period_stats, r, SamePlatform) # {} =>
               IsDelta(r.d_rev, Latest(Preceding(period_stats, r, SamePlatform)).rev, r.rev)
    /\ pc = "exported" =>
        /\ \A row \in Range(sheets.table.top_products_comparison) :
               ChainsAcrossGaps(row.cols.rev, row.cols.d_rev)
        /\ \A row \in Range(sheets.table.period_comparison) :
               ChainsAcrossGaps(row.value, row.change)

\* the records of one platform, and of one segment of it
OfPlatform(platform) == Rows(df, LAMBDA r : r.platform = platform)
OfSegment(platform, segment) ==
    Rows(df, LAMBDA r : r.platform = platform /\ cut(r.price, price_ranges) = segment)

\* the first row of every key has undefined deltas
FirstDeltasUndefined ==
    /\ \A r \in Range(period_stats) :
           Preceding(period_stats, r, SamePlatform) = {} =>
               r.d_rev = NaN /\ r.d_vol = NaN /\ r.d_price = NaN
    /\ \A r \in Range(segment_stats) :
           Preceding(segment_stats, r, SameSegmentKey) = {} =>
               r.d_rev_share = NaN /\ r.d_vol_share = NaN

\* the rows of a platform are those computed from the records of the platform alone
PlatformRowsIndependent ==
    /\ period_stats # <<>> =>
        \A pl \in Platforms(df) :
            Rows(period_stats, LAMBDA r : r.platform = pl)
                = Rows(calculate_period_stats(OfPlatform(pl), pandas),
                       LAMBDA r : r.platform = pl)
    /\ segment_stats # <<>> =>
        \A pl \in Platforms(df) :
            Rows(segment_stats, LAMBDA r : r.platform = pl)
                = Rows(analyze_price_segments(OfPlatform(pl), price_ranges, pandas),
                       LAMBDA r : r.platform = pl)

\* C20 as claimed: the deltas of a key are those computed without the records of
\* the other platforms and of the other segments, and the first row of every key has
\* undefined deltas.
C20_DeltasIndependentOfOtherKeys ==
    /\ FirstDeltasUndefined
    /\ PlatformRowsIndependent
    /\ segment_stats # <<>> =>
        \A r \in Range(segment_stats) : r.platform # AllPlatforms =>
            \A q \in Range(analyze_price_segments(OfSegment(r.platform, r.segment),
                                                  price_ranges, pandas)) :
                (q.platform = r.platform /\ q.segment = r.segment /\ q.period = r.period)
                    => q.d_rev_share = r.d_rev_share /\ q.d_vol_share = r.d_vol_share

\* C20: the rows of a platform in the period table and in the segment table, deltas
\* included, are those computed from the records of that platform alone, and the
\* first row of every key has undefined deltas, whatever precedes it in the table.
C20_DeltasIndependentOfOtherPlatforms ==
    FirstDeltasUndefined /\ PlatformRowsIndependent

\* two platforms with rows in two periods each, in both tables
C20_Witness ==
    /\ segment_stats # <<>>
    /\ \E r \in Range(period_stats), q \in Range(period_stats) :
           /\ r.platform # AllPlatforms /\ q.platform # AllPlatforms
           /\ r.platform # q.platform
           /\ r.d_rev.k = "num" /\ q.d_rev = NaN /\ r.period = q.period

-----------------------------------------------------------------------------
(* The '所有平台' rows of the top-N tables *)

\* the records of df of one period and segment
SegmentRecords(period, segment) ==
    Rows(df, LAMBDA x : x.period = period /\ cut(x.price, price_ranges) = segment)

\* C21: every '所有平台' row of the tables of get_top_brands_by_segment and
\* get_top_products_by_segment has the revenue and volume summed over the records of df
\* of its period, segment and brand (product name and link), each counted once, and no
\* record of df is tagged '所有平台'.
C21_RollupCountsRecordsOnce ==
    /\ pc \in {"top_brands", "top_products", "exported"} =>
           \A i \in 1..Len(top_brands) :
               LET r == top_brands[i]
                   g == Filter(SegmentRecords(r.period, r.segment),
                               LAMBDA x : x.brand = r.brand)
               IN  r.platform = AllPlatforms =>
                       /\ r.rev = SumOf(g, Revenue)
                       /\ r.vol = SumOf(g, Volume)
    /\ pc \in {"top_products", "exported"} =>
           \A i \in 1..Len(top_products) :
               LET r == top_products[i]
                   g == Filter(SegmentRecords(r.period, r.segment),
                               LAMBDA x : x.name = r.name /\ x.link = r.link)
               IN  r.platform = AllPlatforms =>
                       /\ r.rev = SumOf(g, Revenue)
                       /\ r.vol = SumOf(g, Volume)
    /\ \A i \in 1..Len(df) : df[i].platform # AllPlatforms

-----------------------------------------------------------------------------
(* The tables a stage is handed *)

\* a step of one of the stages that are handed df
StageOfRecords ==
    \/ CalculatePeriodStats
    \/ CalculateBrandShare
    \/ AnalyzePriceSegments
    \/ GetTopBrandsBySegment
    \/ GetTopProductsBySegment
    \/ FormatExcelOutput

\* the tables handed to format_excel_output, with the dtype of their segment column
ExportedTables ==
    <<period_stats, top_10_brands, segment_stats, top_brands, top_products, segment_dtype>>

\* C22: every stage leaves the tables it is handed as they were: no stage changes a
\* row, a column or a tag of df, and format_excel_output leaves the five tables of its
\* arguments equal to what they were before the call.
C22_StagesLeaveInputsUnchanged ==
    [][/\ StageOfRecords => df' = df
       /\ FormatExcelOutput => ExportedTables' = ExportedTables]_vars

-----------------------------------------------------------------------------
(* The boundaries main hands to the segment functions *)

\* main is at or past the call of analyze_price_segments
BoundariesPassed == pc \in {"top_10", "segment_stats", "top_brands", "top_products", "exported"}

\* C23: on every path of the configuration (custom list, fallback after text that does
\* not parse, fallback after fewer than two numbers, automatic segments with editable
\* upper bounds) the boundaries handed to analyze_price_segments,
\* get_top_brands_by_segment and get_top_products_by_segment are at least two and
\* strictly increasing.
C23_BoundariesStrictlyIncrease ==
    BoundariesPassed =>
        /\ Len(price_ranges) >= 2
        /\ \A i \in 1..(Len(price_ranges) - 1) : price_ranges[i] < price_ranges[i + 1]

====
